---------------------------- MODULE Spec2Model ----------------------------
(***************************************************************************)
(* PoseMemorizer (pose_memorizer/core.py, pose_memorizer/gui.py).          *)
(*                                                                         *)
(* The host scene is a set of transform nodes with their attributes, a     *)
(* selection, a current time and animation curves; the tool captures a     *)
(* pose from it (get_pose, get_pose_range), keeps it, and hands the host   *)
(* a MEL command that writes it back (apply_pose, apply_pose_sequence).    *)
(*                                                                         *)
(* Node names are sequences of one-character strings, so that the          *)
(* substring tests, replacements and splits of the code are computed.      *)
(* Angles are degrees, multiples of 180: their half-angle sines and        *)
(* cosines are 0, 1 or -1 and every quaternion has integer components.     *)
(*                                                                         *)
(* The panel keeps the poses in a tree of named items and folders and      *)
(* writes the tree to '<scene>_PoseMemorizer.json' next to the scene file; *)
(* the file system is a map from paths to parsed file contents.            *)
(*                                                                         *)
(* SpecMath, SpecTarget and SpecRange drive the core, SpecPanel the panel. *)
(***************************************************************************)
EXTENDS Integers, Sequences, FiniteSets, TLC

VARIABLES
    scene,      \* node name -> attributes of the transform (the nodes that exist)
    sel,        \* cmds.ls(selection=True, transforms=True), in selection order
    curTime,    \* cmds.currentTime
    curve,      \* node name -> channel -> set of <<frame, value>> keys
    memo,       \* the pose kept by the caller: what get_pose returned
    rangeMemo,  \* the pose list kept by the caller: what get_pose_range returned
    snap,       \* history: the scene as it was when memo was captured
    last,       \* the last call: its arguments, locals and the MEL it evaluated
    tree,       \* pose_list: the top-level items, each with its data and children
    current,    \* pose_list.currentItem(): its path of row numbers, <<>> for None
    scenePath,  \* cmds.file(query=True, sn=True), <<>> for an unsaved scene
    files,      \* the file system: path -> parsed content of the file
    pending,    \* the QTimer.singleShot(0, _save_scene_pose_data) calls not yet run
    isLoading,  \* _is_loading_scene_data
    warned      \* _warned_scene_unsaved

\* the panel's own state
panel == <<tree, current, scenePath, files, pending, isLoading, warned>>

vars == <<scene, sel, curTime, curve, memo, rangeMemo, snap, last,
          tree, current, scenePath, files, pending, isLoading, warned>>

----------------------------------------------------------------------------
(* Sequences used as Python lists, strings and insertion-ordered dicts.     *)

None == "None"

RECURSIVE SeqToSet(_)
SeqToSet(s) == IF s = <<>> THEN {} ELSE {Head(s)} \cup SeqToSet(Tail(s))

\* s[i:] of Python, i counted from 1
Drop(s, i) == SubSeq(s, i, Len(s))

\* s.startswith(p)
StartsWith(s, p) == Len(p) <= Len(s) /\ SubSeq(s, 1, Len(p)) = p

\* p in s   (substring test of Python strings)
RECURSIVE Contains(_, _)
Contains(s, p) ==
    IF StartsWith(s, p) THEN TRUE
    ELSE IF s = <<>> THEN FALSE
    ELSE Contains(Tail(s), p)

\* s.replace(old, new): every non-overlapping occurrence, left to right
RECURSIVE Replace(_, _, _)
Replace(s, old, new) ==
    IF s = <<>> THEN <<>>
    ELSE IF old # <<>> /\ StartsWith(s, old)
         THEN new \o Replace(Drop(s, Len(old) + 1), old, new)
         ELSE <<Head(s)>> \o Replace(Tail(s), old, new)

\* s.split(sep): the list of the parts between the separators
RECURSIVE SplitAcc(_, _, _)
SplitAcc(s, sep, part) ==
    IF s = <<>> THEN <<part>>
    ELSE IF StartsWith(s, sep)
         THEN <<part>> \o SplitAcc(Drop(s, Len(sep) + 1), sep, <<>>)
         ELSE SplitAcc(Tail(s), sep, Append(part, Head(s)))

Split(s, sep) == SplitAcc(s, sep, <<>>)

\* An insertion-ordered dict is a sequence of [k, v] records with distinct keys.
DictKeys(d) == [i \in 1..Len(d) |-> d[i].k]

DictHas(d, key) == \E i \in 1..Len(d) : d[i].k = key

\* d.get(key): None when the key is missing (callers test DictHas for "is not None")
DictGet(d, key) ==
    IF DictHas(d, key)
    THEN d[CHOOSE i \in 1..Len(d) : d[i].k = key].v
    ELSE None

\* d[key] = value: an existing key keeps its place and takes the new value
DictSet(d, key, value) ==
    IF DictHas(d, key)
    THEN [i \in 1..Len(d) |-> IF d[i].k = key THEN [k |-> key, v |-> value] ELSE d[i]]
    ELSE Append(d, [k |-> key, v |-> value])

\* a plain assignment where setdefault is meant: the last value wins
DictSetDefaultOverwrites(d, key, value) == DictSet(d, key, value)

\* d.setdefault(key, value)
DictSetDefault(d, key, value) ==
    IF DictHas(d, key) THEN d ELSE Append(d, [k |-> key, v |-> value])

----------------------------------------------------------------------------
(* Quaternions <<x, y, z, w>> as om2.MQuaternion computes with them.        *)

QIdentity == <<0, 0, 0, 1>>

\* MQuaternion.__mul__: p * q is the rotation p followed by the rotation q
QMul(p, q) ==
    << q[4] * p[1] + q[1] * p[4] + q[2] * p[3] - q[3] * p[2],
       q[4] * p[2] - q[1] * p[3] + q[2] * p[4] + q[3] * p[1],
       q[4] * p[3] + q[1] * p[2] - q[2] * p[1] + q[3] * p[4],
       q[4] * p[4] - q[1] * p[1] - q[2] * p[2] - q[3] * p[3] >>

QNorm2(q) == q[1] * q[1] + q[2] * q[2] + q[3] * q[3] + q[4] * q[4]

\* MQuaternion.inverse(): the conjugate over the squared norm
QInverse(q) ==
    << (0 - q[1]) \div QNorm2(q), (0 - q[2]) \div QNorm2(q),
       (0 - q[3]) \div QNorm2(q), q[4] \div QNorm2(q) >>

\* cos and sin of radians(a) / 2 for a a multiple of 180 degrees
QuarterTurns(a) == (a \div 180) % 4

HalfCos(a) == CASE QuarterTurns(a) = 0 -> 1
                [] QuarterTurns(a) = 2 -> -1
                [] OTHER -> 0

HalfSin(a) == CASE QuarterTurns(a) = 1 -> 1
                [] QuarterTurns(a) = 3 -> -1
                [] OTHER -> 0

\* the rotation by a degrees about axis i (1 = X, 2 = Y, 3 = Z)
AxisQuat(i, a) == [j \in 1..4 |-> IF j = i THEN HalfSin(a)
                                  ELSE IF j = 4 THEN HalfCos(a) ELSE 0]

\* MEulerRotation orders: kXYZ, kYZX, kZXY, kXZY, kYXZ, kZYX; the axes in the
\* order in which the rotations are applied
OrderAxes(order) ==
    CASE order = 0 -> <<1, 2, 3>>
      [] order = 1 -> <<2, 3, 1>>
      [] order = 2 -> <<3, 1, 2>>
      [] order = 3 -> <<1, 3, 2>>
      [] order = 4 -> <<2, 1, 3>>
      [] order = 5 -> <<3, 2, 1>>

\* _convert_quaternion: MEulerRotation([radians(r) for r in rotate], order).asQuaternion()
ConvertQuaternion(rotate, order) ==
    LET ax == OrderAxes(order)
    IN  QMul(QMul(AxisQuat(ax[1], rotate[ax[1]]), AxisQuat(ax[2], rotate[ax[2]])),
             AxisQuat(ax[3], rotate[ax[3]]))

\* MQuaternion.asEulerRotation() and degrees(): the XYZ decomposition of the
\* rotation (q and -q are the same rotation)
AsEulerDegrees(q) ==
    CASE q[1] # 0 -> <<180, 0, 0>>
      [] q[2] # 0 -> <<180, 0, 180>>
      [] q[3] # 0 -> <<0, 0, 180>>
      [] OTHER    -> <<0, 0, 0>>

----------------------------------------------------------------------------
(* The host scene.                                                          *)

Channels == <<"tx", "ty", "tz", "rx", "ry", "rz">>

ChannelSet == SeqToSet(Channels)

\* the long attribute name getAttr(..., lock=True) is asked with, per channel
LongName(ch) ==
    CASE ch = "tx" -> "translateX" [] ch = "ty" -> "translateY"
      [] ch = "tz" -> "translateZ" [] ch = "rx" -> "rotateX"
      [] ch = "ry" -> "rotateY"    [] ch = "rz" -> "rotateZ"

\* cmds.getAttr("<node>.<long name>", lock=True)
IsLocked(sc, n, long) == long \in sc[n].lock

\* cmds.objExists(n)
ObjExists(sc, n) == n \in DOMAIN sc

\* the value a channel of a node has in the scene
ChannelValue(a, ch) ==
    CASE ch = "tx" -> a.t[1] [] ch = "ty" -> a.t[2] [] ch = "tz" -> a.t[3]
      [] ch = "rx" -> a.r[1] [] ch = "ry" -> a.r[2] [] ch = "rz" -> a.r[3]

\* the attributes of a node after one channel is written
WithChannel(a, ch, v) ==
    CASE ch = "tx" -> [a EXCEPT !.t[1] = v] [] ch = "ty" -> [a EXCEPT !.t[2] = v]
      [] ch = "tz" -> [a EXCEPT !.t[3] = v] [] ch = "rx" -> [a EXCEPT !.r[1] = v]
      [] ch = "ry" -> [a EXCEPT !.r[2] = v] [] ch = "rz" -> [a EXCEPT !.r[3] = v]

----------------------------------------------------------------------------
(* core.py: PoseMemorizer                                                   *)

\* _make_mirror_matrix with a y_qua that leaves w as it is
MakeMirrorMatrixKeepW ==
    [x |-> << <<-1, 1, 1>>, <<-1, 1, 1, -1>> >>,
     y |-> << <<1, -1, 1>>, <<1, -1, 1, 1>> >>,
     z |-> << <<1, 1, -1>>, <<1, 1, -1, -1>> >>]

\* _make_mirror_matrix
MakeMirrorMatrix ==
    [x |-> << <<-1, 1, 1>>, <<-1, 1, 1, -1>> >>,
     y |-> << <<1, -1, 1>>, <<1, -1, 1, -1>> >>,
     z |-> << <<1, 1, -1>>, <<1, 1, -1, -1>> >>]

\* str.lower() on the axis names
Lower(axis) ==
    CASE axis = "X" -> "x" [] axis = "Y" -> "y" [] axis = "Z" -> "z" [] OTHER -> axis

\* _get_mirror_matrix: self.mirror_matrix.get(mirror_axis.lower())
GetMirrorMatrix(mirror_axis) ==
    IF Lower(mirror_axis) \in DOMAIN MakeMirrorMatrix
    THEN MakeMirrorMatrix[Lower(mirror_axis)]
    ELSE None

\* _make_pose_parameter.get_quaternion: axis * rotate * orient
GetQuaternion(a) ==
    LET rotate == ConvertQuaternion(a.r, a.ro)
        axis   == ConvertQuaternion(a.ra, a.ro)
        orient == IF a.hasJO THEN ConvertQuaternion(a.jo, a.ro) ELSE QIdentity
    IN  QMul(QMul(axis, rotate), orient)

\* _make_pose_parameter: {n: {"translate": ..., "rotate": ...} for n in nodes}
RECURSIVE MakePoseParameterAcc(_, _, _)
MakePoseParameterAcc(sc, nodes, acc) ==
    IF nodes = <<>> THEN acc
    ELSE MakePoseParameterAcc(sc, Tail(nodes),
            DictSet(acc, Head(nodes),
                    [translate |-> sc[Head(nodes)].t,
                     rotate    |-> GetQuaternion(sc[Head(nodes)])]))

MakePoseParameter(sc, nodes) == MakePoseParameterAcc(sc, nodes, <<>>)

\* _convert_target_pose.basename: name.split(":")[-1]
BaseName(name) ==
    LET parts == Split(name, <<":">>) IN parts[Len(parts)]

\* SwapName without its elif branch: a right name is never turned into a left one
SwapNameLeftOnly(n, left, right) ==
    IF Contains(n, left) THEN Replace(n, left, right) ELSE n

\* the name one pose entry gets in the mirror loop of _convert_target_pose
SwapName(n, left, right) ==
    IF Contains(n, left) THEN Replace(n, left, right)
    ELSE IF Contains(n, right) THEN Replace(n, right, left)
    ELSE n

\* _convert_target_pose, lines 59-71: change_pose
RECURSIVE ChangePoseAcc(_, _, _, _)
ChangePoseAcc(pose, left, right, acc) ==
    IF pose = <<>> THEN acc
    ELSE ChangePoseAcc(Tail(pose), left, right,
            DictSet(acc, SwapName(Head(pose).k, left, right), Head(pose).v))

ChangePose(pose, mirror, mirror_name) ==
    IF mirror
    THEN LET split_name == Split(mirror_name, <<" ", ":", " ">>)
         IN  ChangePoseAcc(pose, split_name[1], split_name[2], <<>>)
    ELSE pose

\* the comprehension without its condition
FilterPoseKeepAll(pose, keep) == pose

\* {n: m for n, m in pose.items() if <keep>(n)}
RECURSIVE FilterPose(_, _)
FilterPose(pose, keep) ==
    IF pose = <<>> THEN <<>>
    ELSE IF Head(pose).k \in keep
         THEN <<Head(pose)>> \o FilterPose(Tail(pose), keep)
         ELSE FilterPose(Tail(pose), keep)

\* sel_trans = {basename(t): t for t in sel_transforms}
RECURSIVE SelByBaseName(_, _)
SelByBaseName(sel_transforms, acc) ==
    IF sel_transforms = <<>> THEN acc
    ELSE SelByBaseName(Tail(sel_transforms),
                       DictSet(acc, BaseName(Head(sel_transforms)), Head(sel_transforms)))

\* {sel_trans.get(basename(n)): m for n, m in pose.items()
\*  if sel_trans.get(basename(n)) is not None}
RECURSIVE TargetBySelBaseName(_, _, _)
TargetBySelBaseName(pose, sel_trans, acc) ==
    IF pose = <<>> THEN acc
    ELSE LET b == BaseName(Head(pose).k)
         IN  TargetBySelBaseName(Tail(pose), sel_trans,
                IF DictHas(sel_trans, b)
                THEN DictSet(acc, DictGet(sel_trans, b), Head(pose).v)
                ELSE acc)

\* pose_by_basename.setdefault(basename(node_name), parameter)
RECURSIVE PoseByBaseName(_, _)
PoseByBaseName(pose, acc) ==
    IF pose = <<>> THEN acc
    ELSE PoseByBaseName(Tail(pose),
                        DictSetDefault(acc, BaseName(Head(pose).k), Head(pose).v))

\* for node in cmds.ls(type="transform"): target_pose[node] = pose_parameter
RECURSIVE TargetBySceneBaseName(_, _, _)
TargetBySceneBaseName(transforms, pose_by_basename, acc) ==
    IF transforms = <<>> THEN acc
    ELSE LET b == BaseName(Head(transforms))
         IN  TargetBySceneBaseName(Tail(transforms), pose_by_basename,
                IF DictHas(pose_by_basename, b)
                THEN DictSet(acc, Head(transforms), DictGet(pose_by_basename, b))
                ELSE acc)

\* cmds.ls(type="transform"): the nodes of the scene in the host's order
RECURSIVE ListTransforms(_, _)
ListTransforms(sc, order) ==
    IF order = <<>> THEN <<>>
    ELSE IF Head(order) \in DOMAIN sc
         THEN <<Head(order)>> \o ListTransforms(sc, Tail(order))
         ELSE ListTransforms(sc, Tail(order))

\* _convert_target_pose, lines 73-97, on the pose the mirror loop left
TargetPose(pose, namespace, sel_transforms, sc, order) ==
    IF sel_transforms # <<>>
    THEN IF namespace
         THEN FilterPose(pose, SeqToSet(sel_transforms))
         ELSE TargetBySelBaseName(pose, SelByBaseName(sel_transforms, <<>>), <<>>)
    ELSE IF namespace
         THEN FilterPose(pose, {n \in SeqToSet(DictKeys(pose)) : ObjExists(sc, n)})
         ELSE TargetBySceneBaseName(ListTransforms(sc, order),
                                    PoseByBaseName(pose, <<>>), <<>>)

\* _convert_target_pose
ConvertTargetPose(pose, mirror, mirror_name, namespace, sel_transforms, sc, order) ==
    TargetPose(ChangePose(pose, mirror, mirror_name), namespace, sel_transforms, sc, order)

\* InvAxis without its .inverse(): the rotate axis composed a second time
InvAxisNotInverted(a) == ConvertQuaternion(a.ra, a.ro)

\* inv_axis and inv_orient of convert_matrix and convert_mirror_matrix
InvAxis(a) == QInverse(ConvertQuaternion(a.ra, a.ro))

InvOrient(a) == IF a.hasJO THEN QInverse(ConvertQuaternion(a.jo, a.ro)) ELSE QIdentity

\* convert_matrix: inv_axis * rot_qua * inv_orient
ConvertMatrixQuat(a, parameter) ==
    QMul(QMul(InvAxis(a), parameter.rotate), InvOrient(a))

\* convert_matrix
ConvertMatrix(a, parameter) ==
    <<parameter.translate, AsEulerDegrees(ConvertMatrixQuat(a, parameter))>>

\* [s * m for s, m in zip(src, mirror)]
ZipMul(src, m) == [i \in 1..Len(src) |-> src[i] * m[i]]

\* convert_mirror_matrix: mirror_rot
MirrorRot(parameter, mirror_qua) == ZipMul(parameter.rotate, mirror_qua)

\* convert_mirror_matrix: inv_axis * mirror_rot * inv_orient
ConvertMirrorMatrixQuat(a, parameter, mirror_qua) ==
    QMul(QMul(InvAxis(a), MirrorRot(parameter, mirror_qua)), InvOrient(a))

\* convert_mirror_matrix
ConvertMirrorMatrix(a, parameter, mirror_trans, mirror_qua) ==
    <<ZipMul(parameter.translate, mirror_trans),
      AsEulerDegrees(ConvertMirrorMatrixQuat(a, parameter, mirror_qua))>>

\* _get_translate_rotate: {n: (translate, rotate)} over the target pose
GetTranslateRotate(pose, mirror, mirror_axis, sc) ==
    IF mirror
    THEN LET mm == GetMirrorMatrix(mirror_axis)
         IN  [i \in 1..Len(pose) |->
                [k |-> pose[i].k,
                 v |-> ConvertMirrorMatrix(sc[pose[i].k], pose[i].v, mm[1], mm[2])]]
    ELSE [i \in 1..Len(pose) |->
                [k |-> pose[i].k, v |-> ConvertMatrix(sc[pose[i].k], pose[i].v)]]

\* the quaternion each target's Euler rotation is taken from (a local of
\* convert_matrix / convert_mirror_matrix)
RotationQuats(pose, mirror, mirror_axis, sc) ==
    [i \in 1..Len(pose) |->
        [k |-> pose[i].k,
         v |-> IF mirror
               THEN ConvertMirrorMatrixQuat(sc[pose[i].k], pose[i].v,
                                            GetMirrorMatrix(mirror_axis)[2])
               ELSE ConvertMatrixQuat(sc[pose[i].k], pose[i].v)]]

\* the quaternion each target's stored rotation becomes before it is composed
\* with inv_axis and inv_orient: mirror_rot with mirror on, rot_qua with it off
MirrorRots(pose, mirror, mirror_axis) ==
    [i \in 1..Len(pose) |->
        [k |-> pose[i].k,
         v |-> IF mirror
               THEN MirrorRot(pose[i].v, GetMirrorMatrix(mirror_axis)[2])
               ELSE pose[i].v.rotate]]

\* the value a command writes on a channel: translate[0..2], rotate[0..2]
TrValue(m, ch) ==
    CASE ch = "tx" -> m[1][1] [] ch = "ty" -> m[1][2] [] ch = "tz" -> m[1][3]
      [] ch = "rx" -> m[2][1] [] ch = "ry" -> m[2][2] [] ch = "rz" -> m[2][3]

\* one command of the MEL text: "setAttr <node>.<at> <value>",
\* "setKeyframe -at <at> -v <value> -dd true <node>" or "dgdirty <nodes>"
SetCmd(cmd, at, value, node) ==
    [cmd |-> cmd, at |-> at, v |-> value, node |-> node, nodes |-> <<>>]

DgDirty(nodes) ==
    [cmd |-> "dgdirty", at |-> "", v |-> 0, node |-> <<>>, nodes |-> nodes]

\* NodeSetKeyCommand without the lock check of rotateZ
NodeSetKeyCommandKeysLockedRz(sc, n, m) ==
    (IF IsLocked(sc, n, "translateX") = FALSE
     THEN <<SetCmd("setKeyframe", "tx", m[1][1], n)>> ELSE <<>>)
    \o (IF IsLocked(sc, n, "translateY") = FALSE
     THEN <<SetCmd("setKeyframe", "ty", m[1][2], n)>> ELSE <<>>)
    \o (IF IsLocked(sc, n, "translateZ") = FALSE
     THEN <<SetCmd("setKeyframe", "tz", m[1][3], n)>> ELSE <<>>)
    \o (IF IsLocked(sc, n, "rotateX") = FALSE
     THEN <<SetCmd("setKeyframe", "rx", m[2][1], n)>> ELSE <<>>)
    \o (IF IsLocked(sc, n, "rotateY") = FALSE
     THEN <<SetCmd("setKeyframe", "ry", m[2][2], n)>> ELSE <<>>)
    \o <<SetCmd("setKeyframe", "rz", m[2][3], n)>>

\* _get_setkey_command, lines 153-165: the commands of one node
NodeSetKeyCommand(sc, n, m) ==
    (IF IsLocked(sc, n, "translateX") = FALSE
     THEN <<SetCmd("setKeyframe", "tx", m[1][1], n)>> ELSE <<>>)
    \o (IF IsLocked(sc, n, "translateY") = FALSE
     THEN <<SetCmd("setKeyframe", "ty", m[1][2], n)>> ELSE <<>>)
    \o (IF IsLocked(sc, n, "translateZ") = FALSE
     THEN <<SetCmd("setKeyframe", "tz", m[1][3], n)>> ELSE <<>>)
    \o (IF IsLocked(sc, n, "rotateX") = FALSE
     THEN <<SetCmd("setKeyframe", "rx", m[2][1], n)>> ELSE <<>>)
    \o (IF IsLocked(sc, n, "rotateY") = FALSE
     THEN <<SetCmd("setKeyframe", "ry", m[2][2], n)>> ELSE <<>>)
    \o (IF IsLocked(sc, n, "rotateZ") = FALSE
     THEN <<SetCmd("setKeyframe", "rz", m[2][3], n)>> ELSE <<>>)

\* NodeSetAttrCommand without the lock check of translateX
NodeSetAttrCommandNoLockCheck(sc, n, m) ==
    <<SetCmd("setAttr", "tx", m[1][1], n)>>
    \o (IF IsLocked(sc, n, "translateY") = FALSE
     THEN <<SetCmd("setAttr", "ty", m[1][2], n)>> ELSE <<>>)
    \o (IF IsLocked(sc, n, "translateZ") = FALSE
     THEN <<SetCmd("setAttr", "tz", m[1][3], n)>> ELSE <<>>)
    \o (IF IsLocked(sc, n, "rotateX") = FALSE
     THEN <<SetCmd("setAttr", "rx", m[2][1], n)>> ELSE <<>>)
    \o (IF IsLocked(sc, n, "rotateY") = FALSE
     THEN <<SetCmd("setAttr", "ry", m[2][2], n)>> ELSE <<>>)
    \o (IF IsLocked(sc, n, "rotateZ") = FALSE
     THEN <<SetCmd("setAttr", "rz", m[2][3], n)>> ELSE <<>>)

\* _get_setattr_command, lines 184-196: the commands of one node
NodeSetAttrCommand(sc, n, m) ==
    (IF IsLocked(sc, n, "translateX") = FALSE
     THEN <<SetCmd("setAttr", "tx", m[1][1], n)>> ELSE <<>>)
    \o (IF IsLocked(sc, n, "translateY") = FALSE
     THEN <<SetCmd("setAttr", "ty", m[1][2], n)>> ELSE <<>>)
    \o (IF IsLocked(sc, n, "translateZ") = FALSE
     THEN <<SetCmd("setAttr", "tz", m[1][3], n)>> ELSE <<>>)
    \o (IF IsLocked(sc, n, "rotateX") = FALSE
     THEN <<SetCmd("setAttr", "rx", m[2][1], n)>> ELSE <<>>)
    \o (IF IsLocked(sc, n, "rotateY") = FALSE
     THEN <<SetCmd("setAttr", "ry", m[2][2], n)>> ELSE <<>>)
    \o (IF IsLocked(sc, n, "rotateZ") = FALSE
     THEN <<SetCmd("setAttr", "rz", m[2][3], n)>> ELSE <<>>)

\* _get_setkey_command: the commands joined by ";"
RECURSIVE SetKeyLoop(_, _)
SetKeyLoop(sc, trans_rot) ==
    IF trans_rot = <<>> THEN <<>>
    ELSE NodeSetKeyCommand(sc, Head(trans_rot).k, Head(trans_rot).v)
         \o SetKeyLoop(sc, Tail(trans_rot))

GetSetKeyCommand(sc, trans_rot) ==
    Append(SetKeyLoop(sc, trans_rot), DgDirty(DictKeys(trans_rot)))

\* _get_setattr_command: the commands joined by ";"
RECURSIVE SetAttrLoop(_, _)
SetAttrLoop(sc, trans_rot) ==
    IF trans_rot = <<>> THEN <<>>
    ELSE NodeSetAttrCommand(sc, Head(trans_rot).k, Head(trans_rot).v)
         \o SetAttrLoop(sc, Tail(trans_rot))

GetSetAttrCommand(sc, trans_rot) ==
    Append(SetAttrLoop(sc, trans_rot), DgDirty(DictKeys(trans_rot)))

----------------------------------------------------------------------------
(* The host: what it does with the MEL it is handed, and with the time.     *)

\* a curve after a key is set at a frame: the key of that frame is replaced
WithKey(keys, frame, v) == {k \in keys : k[1] # frame} \cup {<<frame, v>>}

\* the value of a keyed channel at a time: the last key at or before it is
\* held, and before the first key the first key is
CurveValue(keys, time) ==
    LET before == {k \in keys : k[1] <= time}
        from   == IF before # {} THEN before ELSE keys
        pick   == IF before # {}
                  THEN CHOOSE k \in from : \A o \in from : o[1] <= k[1]
                  ELSE CHOOSE k \in from : \A o \in from : o[1] >= k[1]
    IN  pick[2]

\* mel.eval of one command: the scene after it
EvalSceneCmd(sc, c) ==
    IF c.cmd \in {"setAttr", "setKeyframe"} /\ c.node \in DOMAIN sc
    THEN [sc EXCEPT ![c.node] = WithChannel(@, c.at, c.v)]
    ELSE sc

\* mel.eval of one command: the curves after it
EvalCurveCmd(cv, c, time) ==
    IF c.cmd = "setKeyframe" /\ c.node \in DOMAIN cv
    THEN [cv EXCEPT ![c.node][c.at] = WithKey(@, time, c.v)]
    ELSE cv

RECURSIVE EvalScene(_, _)
EvalScene(sc, cmd) ==
    IF cmd = <<>> THEN sc ELSE EvalScene(EvalSceneCmd(sc, Head(cmd)), Tail(cmd))

RECURSIVE EvalCurve(_, _, _)
EvalCurve(cv, cmd, time) ==
    IF cmd = <<>> THEN cv
    ELSE EvalCurve(EvalCurveCmd(cv, Head(cmd), time), Tail(cmd), time)

\* cmds.currentTime(time, edit=True): every keyed channel takes its curve's value
SceneAtTime(sc, cv, time) ==
    [n \in DOMAIN sc |->
        LET val(ch) == IF cv[n][ch] # {} THEN CurveValue(cv[n][ch], time)
                       ELSE ChannelValue(sc[n], ch)
        IN  [sc[n] EXCEPT !.t = <<val("tx"), val("ty"), val("tz")>>,
                          !.r = <<val("rx"), val("ry"), val("rz")>>]]

NoKeys == [ch \in ChannelSet |-> {}]

----------------------------------------------------------------------------
(* The calls of the core and what the animator does between them.           *)

\* gui.py MIRRORNAME entries, as mirror_name_combo.currentText() gives them
MirrorNameLR == <<"_", "L", " ", ":", " ", "_", "R">>

MirrorNameLeftRight ==
    <<"L", "e", "f", "t", " ", ":", " ", "R", "i", "g", "h", "t">>

\* the state of the panel's variables while no panel is open
PanelClosed ==
    /\ tree = <<>>
    /\ current = <<>>
    /\ scenePath = <<>>
    /\ files = <<>>
    /\ pending = 0
    /\ isLoading = FALSE
    /\ warned = FALSE

\* the record of a call of the core; NoCall when the last step was none
NoCall ==
    [op |-> "none", mirror |-> FALSE, mirror_name |-> <<>>, mirror_axis |-> "",
     setkey |-> FALSE, namespace |-> FALSE, pose |-> <<>>, change |-> <<>>,
     target |-> <<>>, fed |-> <<>>, quat |-> <<>>, tr |-> <<>>, evals |-> <<>>,
     range |-> <<>>, nodes |-> <<>>, ret |-> <<>>, time0 |-> 0, times |-> <<>>,
     raised |-> FALSE, items |-> <<>>]

\* get_pose() with no transform given: the pose of the selection
GetPose ==
    /\ memo' = MakePoseParameter(scene, sel)
    /\ snap' = [n \in SeqToSet(sel) |-> scene[n]]
    /\ last' = NoCall
    /\ UNCHANGED <<scene, sel, curTime, curve, rangeMemo, panel>>

\* apply_pose(memo, mirror, mirror_name, mirror_axis, setkey, namespace)
ApplyPose(mirror, mirror_name, mirror_axis, setkey, namespace, order) ==
    \E target \in {ConvertTargetPose(memo, mirror, mirror_name, namespace,
                                     sel, scene, order)} :
    \E pose_tr \in {GetTranslateRotate(target, mirror, mirror_axis, scene)} :
    \E cmd \in {IF setkey THEN GetSetKeyCommand(scene, pose_tr)
                ELSE GetSetAttrCommand(scene, pose_tr)} :
        /\ scene' = IF cmd # <<>> THEN EvalScene(scene, cmd) ELSE scene
        /\ curve' = IF cmd # <<>> THEN EvalCurve(curve, cmd, curTime) ELSE curve
        /\ last' = [NoCall EXCEPT
                      !.op = "apply_pose", !.mirror = mirror,
                      !.mirror_name = mirror_name, !.mirror_axis = mirror_axis,
                      !.setkey = setkey, !.namespace = namespace, !.pose = memo,
                      !.change = ChangePose(memo, mirror, mirror_name),
                      !.target = target,
                      !.fed = MirrorRots(target, mirror, mirror_axis),
                      !.quat = RotationQuats(target, mirror, mirror_axis, scene),
                      !.tr = pose_tr,
                      !.evals = IF cmd # <<>> THEN <<[time |-> curTime, cmd |-> cmd]>>
                                ELSE <<>>,
                      !.time0 = curTime]
        /\ UNCHANGED <<sel, curTime, memo, rangeMemo, snap, panel>>

\* the animator edits one attribute of a node in the channel box
UserSetRotate(n, r) ==
    /\ n \in DOMAIN scene /\ scene[n].r # r
    /\ scene' = [scene EXCEPT ![n].r = r]
    /\ last' = NoCall
    /\ UNCHANGED <<sel, curTime, curve, memo, rangeMemo, snap, panel>>

UserSetRotateOrder(n, ro) ==
    /\ n \in DOMAIN scene /\ scene[n].ro # ro
    /\ scene' = [scene EXCEPT ![n].ro = ro]
    /\ last' = NoCall
    /\ UNCHANGED <<sel, curTime, curve, memo, rangeMemo, snap, panel>>

UserSetRotateAxis(n, ra) ==
    /\ n \in DOMAIN scene /\ scene[n].ra # ra
    /\ scene' = [scene EXCEPT ![n].ra = ra]
    /\ last' = NoCall
    /\ UNCHANGED <<sel, curTime, curve, memo, rangeMemo, snap, panel>>

UserSetJointOrient(n, jo) ==
    /\ n \in DOMAIN scene /\ scene[n].hasJO /\ scene[n].jo # jo
    /\ scene' = [scene EXCEPT ![n].jo = jo]
    /\ last' = NoCall
    /\ UNCHANGED <<sel, curTime, curve, memo, rangeMemo, snap, panel>>

----------------------------------------------------------------------------
(* SpecMath: one node, captured and re-applied while its rig is edited.     *)

MathNode == <<"j">>

MathRotates == {<<0, 0, 0>>, <<180, 0, 0>>, <<0, -180, 180>>}

MathOrders == {0, 5}

MathAxes == {<<0, 0, 0>>, <<0, 180, 0>>}

MathOrients == {<<0, 0, 0>>, <<180, 0, -180>>}

MathMirrorAxes == {"X", "Y", "Z", "y", "z"}

InitMath ==
    /\ \E joint \in BOOLEAN :
         scene = (MathNode :> [t |-> <<1, 2, 3>>, r |-> <<0, 0, 0>>, ro |-> 0,
                               ra |-> <<0, 0, 0>>, hasJO |-> joint,
                               jo |-> <<0, 0, 0>>,
                               lock |-> {"translateX", "translateY", "translateZ"}])
    /\ sel = <<MathNode>>
    /\ curTime = 1
    /\ curve = (MathNode :> NoKeys)
    /\ memo = <<>>
    /\ rangeMemo = <<>>
    /\ snap = <<>>
    /\ last = NoCall
    /\ PanelClosed

NextMath ==
    \/ GetPose
    \/ ApplyPose(FALSE, MirrorNameLR, "X", FALSE, TRUE, <<MathNode>>)
    \/ \E axis \in MathMirrorAxes :
         ApplyPose(TRUE, MirrorNameLR, axis, FALSE, TRUE, <<MathNode>>)
    \/ \E r \in MathRotates : UserSetRotate(MathNode, r)
    \/ \E ro \in MathOrders : UserSetRotateOrder(MathNode, ro)
    \/ \E ra \in MathAxes : UserSetRotateAxis(MathNode, ra)
    \/ \E jo \in MathOrients : UserSetJointOrient(MathNode, jo)

SpecMath == InitMath /\ [][NextMath]_vars

----------------------------------------------------------------------------
(* SpecTarget: a scene of a left node, its right twin and a left node of    *)
(* the same base name in a namespace; the animator selects, moves a_L,      *)
(* memorises and applies.                                                   *)

NodeAL == <<"a", "_", "L">>

NodeAR == <<"a", "_", "R">>

NodeNAL == <<"n", ":", "a", "_", "L">>

\* the order in which cmds.ls(type="transform") lists the nodes
TargetOrder == <<NodeAL, NodeAR, NodeNAL>>

TargetNodes == SeqToSet(TargetOrder)

MaxSel == 3

\* the selections the animator can make: up to MaxSel distinct nodes, in order
RECURSIVE SelectionsOfLen(_, _)
SelectionsOfLen(nodes, len) ==
    IF len = 0 THEN {<<>>}
    ELSE {Append(s, n) : s \in SelectionsOfLen(nodes, len - 1), n \in nodes}

Selections(nodes) ==
    {s \in UNION {SelectionsOfLen(nodes, len) : len \in 0..MaxSel} :
        \A i, j \in 1..Len(s) : i # j => s[i] # s[j]}

RestAttrs ==
    [t |-> <<0, 0, 0>>, r |-> <<0, 0, 0>>, ro |-> 0, ra |-> <<0, 0, 0>>,
     hasJO |-> FALSE, jo |-> <<0, 0, 0>>, lock |-> {}]

MovedAttrs == [RestAttrs EXCEPT !.t = <<0, 1, 0>>, !.r = <<0, 0, 180>>]

\* the animator changes the selection
UserSelect(s) ==
    /\ s # sel
    /\ SeqToSet(s) \subseteq DOMAIN scene
    /\ sel' = s
    /\ last' = NoCall
    /\ UNCHANGED <<scene, curTime, curve, memo, rangeMemo, snap, panel>>

\* the animator moves a node to the other of its two places
UserMove(n) ==
    /\ n \in DOMAIN scene
    /\ scene' = [scene EXCEPT ![n] = IF @.t = RestAttrs.t
                                     THEN [@ EXCEPT !.t = MovedAttrs.t, !.r = MovedAttrs.r]
                                     ELSE [@ EXCEPT !.t = RestAttrs.t, !.r = RestAttrs.r]]
    /\ last' = NoCall
    /\ UNCHANGED <<sel, curTime, curve, memo, rangeMemo, snap, panel>>

InitTarget ==
    /\ scene = [n \in TargetNodes |-> IF n = NodeAL THEN MovedAttrs ELSE RestAttrs]
    /\ sel = <<>>
    /\ curTime = 1
    /\ curve = [n \in TargetNodes |-> NoKeys]
    /\ memo = <<>>
    /\ rangeMemo = <<>>
    /\ snap = <<>>
    /\ last = NoCall
    /\ PanelClosed

NextTarget ==
    \/ GetPose
    \/ \E namespace \in BOOLEAN :
         ApplyPose(FALSE, MirrorNameLR, "X", FALSE, namespace, TargetOrder)
    \/ \E namespace \in BOOLEAN, mirror_name \in {MirrorNameLR, MirrorNameLeftRight} :
         ApplyPose(TRUE, mirror_name, "X", FALSE, namespace, TargetOrder)
    \/ \E s \in Selections(TargetNodes) : UserSelect(s)
    \/ UserMove(NodeAL)

SpecTarget == InitTarget /\ [][NextTarget]_vars

----------------------------------------------------------------------------
(* SpecLock: two nodes whose six channels are locked in every combination   *)
(* (the second node in three of them); a pose is captured and applied,      *)
(* plain or mirrored, by setAttr or by setKeyframe.                         *)

LongNames == {LongName(ch) : ch \in ChannelSet}

InitLock ==
    /\ \E lc \in SUBSET LongNames :
       \E ld \in {{}, LongNames, {"translateY", "rotateX"}} :
         scene = (<<"c">> :> [MovedAttrs EXCEPT !.lock = lc])
                 @@ (<<"d">> :> [RestAttrs EXCEPT !.t = <<1, 2, 3>>, !.lock = ld])
    /\ sel = << <<"c">> >>
    /\ curTime = 1
    /\ curve = (<<"c">> :> NoKeys) @@ (<<"d">> :> NoKeys)
    /\ memo = <<>>
    /\ rangeMemo = <<>>
    /\ snap = <<>>
    /\ last = NoCall
    /\ PanelClosed

NextLock ==
    \/ GetPose
    \/ \E mirror, setkey \in BOOLEAN :
         ApplyPose(mirror, MirrorNameLR, "X", setkey, TRUE, << <<"c">>, <<"d">> >>)
    \/ \E s \in {<< <<"c">> >>, << <<"c">>, <<"d">> >>} : UserSelect(s)

SpecLock == InitLock /\ [][NextLock]_vars

----------------------------------------------------------------------------
(* get_pose_range and apply_pose_sequence.                                  *)

\* the key times of one curve inside [start, end], ascending
RECURSIVE CurveTimes(_, _, _)
CurveTimes(keys, start, end) ==
    IF start > end THEN <<>>
    ELSE (IF \E k \in keys : k[1] = start THEN <<start>> ELSE <<>>)
         \o CurveTimes(keys, start + 1, end)

\* the key times of the curves of one node, channel after channel
RECURSIVE NodeTimes(_, _, _, _)
NodeTimes(cv, chs, start, end) ==
    IF chs = <<>> THEN <<>>
    ELSE CurveTimes(cv[Head(chs)], start, end) \o NodeTimes(cv, Tail(chs), start, end)

\* cmds.keyframe(transform, time=(start_frame, end_frame), query=True): it
\* raises on a name that is no object, and gives None when there is no key
RECURSIVE KeyTimes(_, _, _, _)
KeyTimes(cv, transform, start, end) ==
    IF transform = <<>> THEN <<>>
    ELSE NodeTimes(cv[Head(transform)], Channels, start, end)
         \o KeyTimes(cv, Tail(transform), start, end)

KeyframeQuery(sc, cv, transform, start, end) ==
    IF \E i \in 1..Len(transform) : ~ObjExists(sc, transform[i])
    THEN [raised |-> TRUE, none |-> FALSE, times |-> <<>>]
    ELSE [raised |-> FALSE,
          none   |-> KeyTimes(cv, transform, start, end) = <<>>,
          times  |-> KeyTimes(cv, transform, start, end)]

\* sorted(set(key_times))
RECURSIVE SortedSet(_)
SortedSet(S) ==
    IF S = {} THEN <<>>
    ELSE LET least == CHOOSE x \in S : \A y \in S : x <= y
         IN  <<least>> \o SortedSet(S \ {least})

\* get_pose_range, lines 229-232: the time is set to each frame and the pose
\* of the transforms is taken there
RECURSIVE SampleFrames(_, _, _, _)
SampleFrames(sc, cv, frames, transform) ==
    IF frames = <<>> THEN <<>>
    ELSE <<[frame |-> Head(frames),
            pose  |-> MakePoseParameter(SceneAtTime(sc, cv, Head(frames)), transform)]>>
         \o SampleFrames(SceneAtTime(sc, cv, Head(frames)), cv, Tail(frames), transform)

\* the transforms get_pose_range works on: the ones given, else the selection
ChosenTransforms(transform) == IF Len(transform) = 0 THEN sel ELSE transform

\* RangeFrames that steps through the key times as the query gave them
RangeFramesAsQueried(sc, cv, chosen, start, end) ==
    LET q == KeyframeQuery(sc, cv, chosen, start, end)
    IN  IF Len(chosen) = 0 THEN <<>>
        ELSE IF q.raised THEN <<>>
        ELSE IF q.none THEN <<>>
        ELSE q.times

\* the frames get_pose_range steps through; none on each of its early returns
RangeFrames(sc, cv, chosen, start, end) ==
    LET q == KeyframeQuery(sc, cv, chosen, start, end)
    IN  IF Len(chosen) = 0 THEN <<>>
        ELSE IF q.raised THEN <<>>
        ELSE IF q.none THEN <<>>
        ELSE SortedSet(SeqToSet(q.times))

\* the cmds.currentTime(..., edit=True) calls of a call that reached its try
\* block: one per frame stepped to, then the one of the finally clause with
\* the time queried before the try
TimeEditsNoRestore(stepped, current_time) == stepped

TimeEdits(stepped, current_time) == Append(stepped, current_time)

\* the time of the host after the edits of a call
TimeAfter(edits, time) == IF edits = <<>> THEN time ELSE edits[Len(edits)]

\* get_pose_range(start_frame, end_frame, transform); the caller keeps the list
GetPoseRange(start_frame, end_frame, transform) ==
    \E chosen \in {ChosenTransforms(transform)} :
    \E frames \in {RangeFrames(scene, curve, chosen, start_frame, end_frame)} :
    \E edits \in {IF frames # <<>> THEN TimeEdits(frames, curTime) ELSE <<>>} :
        /\ rangeMemo' = SampleFrames(scene, curve, frames, chosen)
        /\ curTime' = TimeAfter(edits, curTime)
        /\ scene' = IF frames # <<>> THEN SceneAtTime(scene, curve, curTime') ELSE scene
        /\ last' = [NoCall EXCEPT
                      !.op = "get_pose_range",
                      !.range = <<start_frame, end_frame>>,
                      !.nodes = chosen,
                      !.ret = rangeMemo',
                      !.time0 = curTime,
                      !.times = edits]
        /\ UNCHANGED <<sel, curve, memo, snap, panel>>

\* get_pose_range when the host raises at the raise_at-th frame, in
\* cmds.currentTime or in _make_pose_parameter after it: the finally clause
\* runs and the exception leaves the call, which returns nothing
GetPoseRangeRaises(start_frame, end_frame, transform, raise_at) ==
    \E chosen \in {ChosenTransforms(transform)} :
    \E frames \in {RangeFrames(scene, curve, chosen, start_frame, end_frame)} :
        /\ raise_at \in 1..Len(frames)
        /\ \E edits \in {TimeEdits(SubSeq(frames, 1, raise_at), curTime)} :
             /\ curTime' = TimeAfter(edits, curTime)
             /\ scene' = SceneAtTime(scene, curve, curTime')
             /\ last' = [NoCall EXCEPT
                           !.op = "get_pose_range_raised",
                           !.range = <<start_frame, end_frame>>,
                           !.nodes = chosen,
                           !.raised = TRUE,
                           !.time0 = curTime,
                           !.times = edits]
        /\ UNCHANGED <<sel, curve, memo, rangeMemo, snap, panel>>

\* sorted(poses, key=lambda x: x.get("frame", 0)): a stable sort
RECURSIVE InsertByFrame(_, _)
InsertByFrame(sorted, p) ==
    IF sorted = <<>> THEN <<p>>
    ELSE IF p.frame < Head(sorted).frame THEN <<p>> \o sorted
    ELSE <<Head(sorted)>> \o InsertByFrame(Tail(sorted), p)

RECURSIVE SortedByFrame(_, _)
SortedByFrame(poses, acc) ==
    IF poses = <<>> THEN acc
    ELSE SortedByFrame(Tail(poses), InsertByFrame(acc, Head(poses)))

\* apply_pose_sequence, lines 263-276: the loop over the sorted poses; st is
\* the scene, the curves, the MEL evaluated and the times set so far
RECURSIVE SequenceLoop(_, _, _, _, _, _, _)
SequenceLoop(st, poses, mirror, mirror_name, mirror_axis, namespace, order) ==
    IF poses = <<>> THEN st
    ELSE IF Len(Head(poses).pose) = 0
    THEN SequenceLoop(st, Tail(poses), mirror, mirror_name, mirror_axis, namespace, order)
    ELSE
      LET frame   == Head(poses).frame
          sc      == SceneAtTime(st.scene, st.curve, frame)
          target  == ConvertTargetPose(Head(poses).pose, mirror, mirror_name,
                                       namespace, sel, sc, order)
          pose_tr == GetTranslateRotate(target, mirror, mirror_axis, sc)
          cmd     == GetSetKeyCommand(sc, pose_tr)
          after   == IF Len(pose_tr) = 0 \/ cmd = <<>>
                     THEN [st EXCEPT !.scene = sc, !.times = Append(@, frame)]
                     ELSE [scene |-> EvalScene(sc, cmd),
                           curve |-> EvalCurve(st.curve, cmd, frame),
                           evals |-> Append(st.evals, [time |-> frame, cmd |-> cmd]),
                           times |-> Append(st.times, frame)]
      IN  SequenceLoop(after, Tail(poses), mirror, mirror_name, mirror_axis,
                       namespace, order)

\* apply_pose_sequence(rangeMemo, mirror, mirror_name, mirror_axis, namespace);
\* setkey is the Set Key option of the panel, which the call is not given
ApplyPoseSequence(mirror, mirror_name, mirror_axis, setkey, namespace, order) ==
    IF Len(rangeMemo) = 0
    THEN /\ last' = [NoCall EXCEPT !.op = "apply_pose_sequence", !.setkey = setkey,
                                   !.time0 = curTime]
         /\ UNCHANGED <<scene, sel, curTime, curve, memo, rangeMemo, snap, panel>>
    ELSE \E st \in {SequenceLoop([scene |-> scene, curve |-> curve,
                                  evals |-> <<>>, times |-> <<>>],
                                 SortedByFrame(rangeMemo, <<>>), mirror, mirror_name,
                                 mirror_axis, namespace, order)} :
         /\ curTime' = TimeAfter(TimeEdits(st.times, curTime), curTime)
         /\ scene' = SceneAtTime(st.scene, st.curve, curTime')
         /\ curve' = st.curve
         /\ last' = [NoCall EXCEPT
                       !.op = "apply_pose_sequence", !.mirror = mirror,
                       !.mirror_name = mirror_name, !.mirror_axis = mirror_axis,
                       !.setkey = setkey, !.namespace = namespace,
                       !.evals = st.evals, !.time0 = curTime,
                       !.times = TimeEdits(st.times, curTime)]
         /\ UNCHANGED <<sel, memo, rangeMemo, snap, panel>>

\* apply_pose_sequence when the host raises at the raise_at-th pose of the
\* sorted list, after the time was set to its frame (in _convert_target_pose,
\* _get_translate_rotate or mel.eval, before the text took effect): the poses
\* before it are applied, the finally clause runs and the exception leaves
ApplyPoseSequenceRaises(mirror, mirror_name, mirror_axis, namespace, order, raise_at) ==
    \E poses \in {SortedByFrame(rangeMemo, <<>>)} :
        /\ raise_at \in 1..Len(poses)
        /\ Len(poses[raise_at].pose) # 0
        /\ \E st \in {SequenceLoop([scene |-> scene, curve |-> curve,
                                     evals |-> <<>>, times |-> <<>>],
                                    SubSeq(poses, 1, raise_at - 1), mirror,
                                    mirror_name, mirror_axis, namespace, order)} :
           \E edits \in {TimeEdits(Append(st.times, poses[raise_at].frame), curTime)} :
             /\ curTime' = TimeAfter(edits, curTime)
             /\ scene' = SceneAtTime(st.scene, st.curve, curTime')
             /\ curve' = st.curve
             /\ last' = [NoCall EXCEPT
                           !.op = "apply_pose_sequence_raised", !.mirror = mirror,
                           !.mirror_name = mirror_name, !.mirror_axis = mirror_axis,
                           !.namespace = namespace, !.raised = TRUE,
                           !.evals = st.evals, !.time0 = curTime,
                           !.times = edits]
        /\ UNCHANGED <<sel, memo, rangeMemo, snap, panel>>

\* gui.py _click_apply: a pose item goes to apply_pose with the Set Key option,
\* a range item that holds poses to apply_pose_sequence without it
ClickApply(item_type, mirror, mirror_name, mirror_axis, setkey, namespace, order) ==
    IF item_type = "pose"
    THEN /\ Len(memo) > 0
         /\ ApplyPose(mirror, mirror_name, mirror_axis, setkey, namespace, order)
    ELSE /\ item_type = "range"
         /\ Len(rangeMemo) # 0
         /\ ApplyPoseSequence(mirror, mirror_name, mirror_axis, setkey, namespace, order)

\* the animator moves the time slider
UserSetTime(time) ==
    /\ time # curTime
    /\ curTime' = time
    /\ scene' = SceneAtTime(scene, curve, time)
    /\ last' = NoCall
    /\ UNCHANGED <<sel, curve, memo, rangeMemo, snap, panel>>

----------------------------------------------------------------------------
(* SpecRange: two animated nodes, sampled over a frame range and re-applied. *)

NodeC == <<"c">>

NodeD == <<"d">>

\* a name that is no object of the scene
NodeGone == <<"x">>

RangeOrder == <<NodeC, NodeD>>

MaxFrame == 2

Frames == 1..MaxFrame

\* the keys of the animation: NodeC's rotateZ at the frames of kc, NodeD's
\* translateY at the frames of kd
RangeCurve(kc, kd) ==
    (NodeC :> [NoKeys EXCEPT !["rz"] = {<<f, 180 * (f % 2)>> : f \in kc}])
    @@ (NodeD :> [NoKeys EXCEPT !["ty"] = {<<f, f>> : f \in kd}])

RangeRest ==
    (NodeC :> [RestAttrs EXCEPT !.lock = {"translateX", "translateY", "translateZ",
                                          "rotateX", "rotateY"}])
    @@ (NodeD :> [RestAttrs EXCEPT !.lock = {"translateX", "translateZ", "rotateX",
                                             "rotateY", "rotateZ"}])

RangeSelections == {<<>>, <<NodeC>>, <<NodeC, NodeD>>}

RangeTransforms == {<<>>, <<NodeD>>, <<NodeD, NodeGone>>}

InitRange ==
    /\ \E kc \in SUBSET Frames, kd \in SUBSET Frames :
         /\ curve = RangeCurve(kc, kd)
         /\ scene = SceneAtTime(RangeRest, curve, 1)
    /\ sel = <<NodeC, NodeD>>
    /\ curTime = 1
    /\ memo = <<>>
    /\ rangeMemo = <<>>
    /\ snap = <<>>
    /\ last = NoCall
    /\ PanelClosed

NextRange ==
    \/ GetPose
    \/ \E start_frame \in Frames, end_frame \in Frames, transform \in RangeTransforms :
         /\ start_frame <= end_frame
         /\ GetPoseRange(start_frame, end_frame, transform)
    \/ \E item_type \in {"pose", "range"}, setkey \in BOOLEAN :
         ClickApply(item_type, FALSE, MirrorNameLR, "X", setkey, TRUE, RangeOrder)
    \/ \E s \in RangeSelections : UserSelect(s)
    \/ \E time \in Frames : UserSetTime(time)
    \/ \* apply_pose_sequence is handed an empty list
       /\ Len(rangeMemo) = 0
       /\ ApplyPoseSequence(FALSE, MirrorNameLR, "X", FALSE, TRUE, RangeOrder)
    \/ \E start_frame \in Frames, end_frame \in Frames, raise_at \in Frames :
         /\ start_frame <= end_frame
         /\ GetPoseRangeRaises(start_frame, end_frame, <<>>, raise_at)
    \/ \E raise_at \in Frames :
         ApplyPoseSequenceRaises(FALSE, MirrorNameLR, "X", TRUE, RangeOrder, raise_at)

SpecRange == InitRange /\ [][NextRange]_vars

----------------------------------------------------------------------------
(* gui.py: the pose tree of the panel.  An item is its text, its UserRole   *)
(* data and its children; a path is the row of an item under each ancestor. *)

\* item.data(0, QtCore.Qt.UserRole) of the three kinds of item
FolderData == [type |-> "folder"]

PoseData(pose_data) == [type |-> "pose", pose |-> pose_data]

RangeData(range_data) == [type |-> "range", poses |-> range_data]

\* QTreeWidgetItem: a new item has no child
NewItem(name, data) == [name |-> name, data |-> data, children |-> <<>>]

\* d.get(key, default) of a dict with string keys
Get(d, key, default) == IF key \in DOMAIN d THEN d[key] ELSE default

\* the item at a path
RECURSIVE ItemAt(_, _)
ItemAt(items, path) ==
    IF Len(path) = 1 THEN items[Head(path)]
    ELSE ItemAt(items[Head(path)].children, Tail(path))

\* the paths of all items, in no order
RECURSIVE PathsOf(_)
PathsOf(items) ==
    UNION {{<<i>>} \cup {<<i>> \o q : q \in PathsOf(items[i].children)} :
           i \in 1..Len(items)}

RECURSIVE CountItems(_)
CountItems(items) ==
    IF items = <<>> THEN 0
    ELSE 1 + CountItems(Head(items).children) + CountItems(Tail(items))

\* a list without its i-th entry
RemoveIndex(items, i) == SubSeq(items, 1, i - 1) \o SubSeq(items, i + 1, Len(items))

\* addTopLevelItem(item) for the path <<>>, QTreeWidgetItem(parent) otherwise:
\* the item becomes the last child
RECURSIVE AppendUnder(_, _, _)
AppendUnder(items, parent, item) ==
    IF parent = <<>> THEN Append(items, item)
    ELSE [items EXCEPT ![Head(parent)].children = AppendUnder(@, Tail(parent), item)]

\* the path a new last child of parent has
RECURSIVE ChildCount(_, _)
ChildCount(items, parent) ==
    IF parent = <<>> THEN Len(items)
    ELSE ChildCount(items[Head(parent)].children, Tail(parent))

\* takeTopLevelItem(index) / parent.removeChild(item)
RECURSIVE RemoveAt(_, _)
RemoveAt(items, path) ==
    IF Len(path) = 1 THEN RemoveIndex(items, Head(path))
    ELSE [items EXCEPT ![Head(path)].children = RemoveAt(@, Tail(path))]

\* item.setText / item.setData: the item at the path replaced
RECURSIVE ReplaceAt(_, _, _)
ReplaceAt(items, path, item) ==
    IF Len(path) = 1 THEN [items EXCEPT ![Head(path)] = item]
    ELSE [items EXCEPT ![Head(path)].children = ReplaceAt(@, Tail(path), item)]

\* _get_insert_parent: the current folder, else the parent of the current
\* item; <<>> stands for None (the item is added at the top level)
GetInsertParent ==
    IF current = <<>> THEN <<>>
    ELSE IF ItemAt(tree, current).data.type = "folder" THEN current
    ELSE IF Len(current) > 1 THEN SubSeq(current, 1, Len(current) - 1)
    ELSE <<>>

\* "{:g}".format(frame) of a whole frame number below 1e6: its decimal digits
DigitChar(d) ==
    CASE d = 0 -> "0" [] d = 1 -> "1" [] d = 2 -> "2" [] d = 3 -> "3" [] d = 4 -> "4"
      [] d = 5 -> "5" [] d = 6 -> "6" [] d = 7 -> "7" [] d = 8 -> "8" [] d = 9 -> "9"

RECURSIVE FormatDigits(_)
FormatDigits(n) ==
    IF n < 10 THEN <<DigitChar(n)>>
    ELSE Append(FormatDigits(n \div 10), DigitChar(n % 10))

FormatG(frame) ==
    IF frame < 0 THEN <<"-">> \o FormatDigits(0 - frame) ELSE FormatDigits(frame)

----------------------------------------------------------------------------
(* gui.py: the scene-side JSON file.  A file's content is what json.load    *)
(* gives for it: an object with or without "version", a list, or no JSON.   *)

SCENE_FILE_VERSION == 1

\* os.path.splitext(scene_path)[0]: the path up to the last dot of its last
\* component, a leading dot of the component not counted
SplitExtBase(path) ==
    LET dots == {i \in 2..Len(path) :
                    /\ path[i] = "."
                    /\ path[i - 1] # "/"
                    /\ \A j \in i..Len(path) : path[j] # "/"}
    IN  IF dots = {} THEN path
        ELSE SubSeq(path, 1, (CHOOSE i \in dots : \A j \in dots : j <= i) - 1)

\* _get_scene_json_path, for a scene that has a path
SceneJsonPath(scene_path) == Append(SplitExtBase(scene_path), "_PoseMemorizer.json")

\* _serialize_pose_data: the value written for one node
SerializeParameter(parameter) ==
    [translate |-> IF Len(Get(parameter, "translate", <<>>)) = 0
                   THEN <<0, 0, 0>> ELSE parameter.translate,
     rotate    |-> IF Len(Get(parameter, "rotate", <<>>)) = 4
                   THEN parameter.rotate ELSE <<0, 0, 0, 1>>]

RECURSIVE SerializePoseData(_)
SerializePoseData(pose_data) ==
    IF pose_data = <<>> THEN <<>>
    ELSE DictSet(SerializePoseData(SubSeq(pose_data, 1, Len(pose_data) - 1)),
                 pose_data[Len(pose_data)].k,
                 SerializeParameter(pose_data[Len(pose_data)].v))

RECURSIVE SerializeRange(_)
SerializeRange(poses) ==
    IF poses = <<>> THEN <<>>
    ELSE <<[frame |-> Head(poses).frame,
            pose  |-> SerializePoseData(Head(poses).pose)]>>
         \o SerializeRange(Tail(poses))

\* _serialize_tree_item; "children" is written only when there is a child
RECURSIVE SerializeTreeItem(_)
RECURSIVE SerializeItems(_)
SerializeTreeItem(item) ==
    LET name     == item.name
        children == SerializeItems(item.children)
    IN  IF item.data.type = "pose"
        THEN IF children # <<>>
             THEN [name |-> name, type |-> "pose",
                   pose |-> SerializePoseData(Get(item.data, "pose", <<>>)),
                   children |-> children]
             ELSE [name |-> name, type |-> "pose",
                   pose |-> SerializePoseData(Get(item.data, "pose", <<>>))]
        ELSE IF item.data.type = "range"
        THEN IF children # <<>>
             THEN [name |-> name, type |-> "range",
                   poses |-> SerializeRange(Get(item.data, "poses", <<>>)),
                   children |-> children]
             ELSE [name |-> name, type |-> "range",
                   poses |-> SerializeRange(Get(item.data, "poses", <<>>))]
        ELSE IF children # <<>>
             THEN [name |-> name, type |-> item.data.type, children |-> children]
             ELSE [name |-> name, type |-> item.data.type]

SerializeItems(items) ==
    IF items = <<>> THEN <<>>
    ELSE <<SerializeTreeItem(Head(items))>> \o SerializeItems(Tail(items))

\* _serialize_tree
SerializeTree(items) == SerializeItems(items)

\* _deserialize_pose_data: the value restored for one node
DeserializeParameter(parameter) ==
    [translate |-> IF Len(Get(parameter, "translate", <<>>)) = 0
                   THEN <<0, 0, 0>> ELSE parameter.translate,
     rotate    |-> IF Len(Get(parameter, "rotate", <<>>)) = 4
                   THEN parameter.rotate ELSE QIdentity]

RECURSIVE DeserializePoseData(_)
DeserializePoseData(pose_data) ==
    IF pose_data = <<>> THEN <<>>
    ELSE DictSet(DeserializePoseData(SubSeq(pose_data, 1, Len(pose_data) - 1)),
                 pose_data[Len(pose_data)].k,
                 DeserializeParameter(pose_data[Len(pose_data)].v))

RECURSIVE DeserializeRange(_)
DeserializeRange(poses) ==
    IF poses = <<>> THEN <<>>
    ELSE <<[frame |-> Head(poses).frame,
            pose  |-> DeserializePoseData(Get(Head(poses), "pose", <<>>))]>>
         \o DeserializeRange(Tail(poses))

\* the text _add_pose gives an item: display_name, else the first node, else "Pose"
PoseItemName(item_data, pose_data) ==
    IF "name" \in DOMAIN item_data THEN item_data.name
    ELSE IF Len(pose_data) > 0 THEN pose_data[1].k
    ELSE <<"Pose">>

\* _restore_tree_item: the item built from one entry of the file, with the
\* items built from its "children"
RECURSIVE RestoreTreeItem(_)
RECURSIVE RestoreItems(_)
RestoreTreeItem(item_data) ==
    LET item_type == Get(item_data, "type", None)
        children  == RestoreItems(Get(item_data, "children", <<>>))
    IN  IF item_type = "pose"
        THEN [name |-> PoseItemName(item_data,
                                    DeserializePoseData(Get(item_data, "pose", <<>>))),
              data |-> PoseData(DeserializePoseData(Get(item_data, "pose", <<>>))),
              children |-> children]
        ELSE IF item_type = "range"
        THEN [name |-> Get(item_data, "name", <<"RangePose">>),
              data |-> RangeData(DeserializeRange(Get(item_data, "poses", <<>>))),
              children |-> children]
        ELSE [name |-> IF Len(Get(item_data, "name", <<>>)) = 0
                       THEN <<"New Folder">> ELSE item_data.name,
              data |-> FolderData,
              children |-> children]

RestoreItems(items) ==
    IF items = <<>> THEN <<>>
    ELSE <<RestoreTreeItem(Head(items))>> \o RestoreItems(Tail(items))

\* _restore_tree_item raises: an entry of "children", at any depth, is no JSON
\* object (written [json |-> ...]) and child_data.get fails at line 563
RECURSIVE RestoreRaises(_)
RestoreRaises(item_data) ==
    \E i \in 1..Len(Get(item_data, "children", <<>>)) :
        \/ "json" \in DOMAIN item_data.children[i]
        \/ RestoreRaises(item_data.children[i])

\* _restore_tree_item up to the point where it raises: the item is there, with
\* the children built before the entry that is no object
RECURSIVE RestorePartial(_)
RestorePartial(item_data) ==
    LET children == item_data.children
        fails(i) == \/ "json" \in DOMAIN children[i]
                    \/ RestoreRaises(children[i])
        bad      == CHOOSE i \in 1..Len(children) :
                        fails(i) /\ \A j \in 1..(i - 1) : ~fails(j)
    IN  [RestoreTreeItem([item_data EXCEPT !.children = <<>>])
            EXCEPT !.children =
                RestoreItems(SubSeq(children, 1, bad - 1))
                \o (IF "json" \in DOMAIN children[bad] THEN <<>>
                    ELSE <<RestorePartial(children[bad])>>)]

\* _save_scene_pose_data: the file system and the warned flag after it
SaveScenePoseDataWhileLoading(fs, loading, wrn, scene_path, items) ==
    IF scene_path = <<>> THEN [files |-> fs, warned |-> TRUE]
    ELSE [files  |-> (SceneJsonPath(scene_path)
                        :> [json |-> "object", version |-> SCENE_FILE_VERSION,
                            items |-> SerializeTree(items)]) @@ fs,
          warned |-> FALSE]

SaveScenePoseData(fs, loading, wrn, scene_path, items) ==
    IF loading THEN [files |-> fs, warned |-> wrn]
    ELSE IF scene_path = <<>> THEN [files |-> fs, warned |-> TRUE]
    ELSE [files  |-> (SceneJsonPath(scene_path)
                        :> [json |-> "object", version |-> SCENE_FILE_VERSION,
                            items |-> SerializeTree(items)]) @@ fs,
          warned |-> FALSE]

\* _load_scene_pose_data, lines 593-614: the file can be read and holds items
LoadAcceptsAnyVersion(fs, file_path) ==
    /\ file_path # <<>>
    /\ file_path \in DOMAIN fs
    /\ fs[file_path].json \in {"object", "list"}
    /\ fs[file_path].json = "object" => "items" \in DOMAIN fs[file_path]

LoadAccepts(fs, file_path) ==
    /\ file_path # <<>>
    /\ file_path \in DOMAIN fs
    /\ fs[file_path].json \in {"object", "list"}
    /\ fs[file_path].json = "object" =>
         /\ Get(fs[file_path], "version", SCENE_FILE_VERSION) = SCENE_FILE_VERSION
         /\ "items" \in DOMAIN fs[file_path]

\* _load_scene_pose_data, lines 616-627, for a file it accepts: the tree is
\* rebuilt with the loading flag up, then saved when the scene has a path
LoadScenePoseData(fs, wrn, scene_path, file_path) ==
    LET items == RestoreItems(fs[file_path].items)
        saved == IF scene_path # <<>>
                 THEN SaveScenePoseData(fs, FALSE, wrn, scene_path, items)
                 ELSE [files |-> fs, warned |-> wrn]
    IN  [tree |-> items, files |-> saved.files, warned |-> saved.warned]

----------------------------------------------------------------------------
(* gui.py: the handlers of the panel.  A handler that inserts or removes a  *)
(* row makes the model emit rowsInserted / rowsRemoved, which queues one    *)
(* deferred save (_tree_structure_changed); setText and setData emit        *)
(* itemChanged, which saves at once (_tree_item_changed).                   *)

MaxItems == 2

MaxPending == 2

PanelOp(op) == [NoCall EXCEPT !.op = op, !.time0 = curTime]

\* _tree_structure_changed, once per rows signal: the deferred saves queued
\* after the signals of a handler
TreeStructureChangedIgnored(queued, signals) == queued

TreeStructureChanged(queued, signals) ==
    IF isLoading THEN queued ELSE queued + signals

\* _click_memorize
ClickMemorize ==
    \E pose_data \in {MakePoseParameter(scene, sel)} :
    \E parent \in {GetInsertParent} :
        /\ Len(pose_data) > 0
        /\ CountItems(tree) < MaxItems
        /\ pending < MaxPending
        /\ LET default_name == IF parent = <<>>
                               THEN <<"TMPPoseF_">> \o FormatG(curTime)
                               ELSE <<"PoseF_">> \o FormatG(curTime)
               items == AppendUnder(tree, parent, NewItem(default_name, PoseData(pose_data)))
               saved == SaveScenePoseData(files, isLoading, warned, scenePath, items)
           IN  /\ tree' = items
               /\ current' = Append(parent, ChildCount(tree, parent) + 1)
               /\ files' = saved.files
               /\ warned' = saved.warned
        /\ pending' = TreeStructureChanged(pending, 1)
        /\ last' = PanelOp("memorize")
        /\ UNCHANGED <<scene, sel, curTime, curve, memo, rangeMemo, snap,
                       scenePath, isLoading>>

\* _click_range_memorize
ClickRangeMemorize(start_spin, end_spin) ==
    \E start_frame \in {IF end_spin < start_spin THEN end_spin ELSE start_spin} :
    \E end_frame \in {IF end_spin < start_spin THEN start_spin ELSE end_spin} :
    \E frames \in {RangeFrames(scene, curve, sel, start_frame, end_frame)} :
    \E parent \in {GetInsertParent} :
        /\ Len(frames) # 0
        /\ CountItems(tree) < MaxItems
        /\ pending < MaxPending
        /\ LET pose_range   == SampleFrames(scene, curve, frames, sel)
               default_name == (IF parent = <<>> THEN <<"TMPRange_">> ELSE <<"Range_">>)
                               \o FormatG(start_frame) \o <<"_">> \o FormatG(end_frame)
               items == AppendUnder(tree, parent, NewItem(default_name, RangeData(pose_range)))
               saved == SaveScenePoseData(files, isLoading, warned, scenePath, items)
           IN  /\ tree' = items
               /\ current' = Append(parent, ChildCount(tree, parent) + 1)
               /\ files' = saved.files
               /\ warned' = saved.warned
        /\ scene' = SceneAtTime(scene, curve, curTime)
        /\ pending' = TreeStructureChanged(pending, 1)
        /\ last' = [PanelOp("range_memorize") EXCEPT !.range = <<start_frame, end_frame>>]
        /\ UNCHANGED <<sel, curTime, curve, memo, rangeMemo, snap, scenePath, isLoading>>

\* _click_update: the pose of the current item is taken again from its nodes
ClickUpdate ==
    /\ current # <<>>
    /\ ItemAt(tree, current).data.type = "pose"
    /\ \E transform \in {DictKeys(Get(ItemAt(tree, current).data, "pose", <<>>))} :
       \E nodes \in {IF Len(transform) = 0 THEN sel ELSE transform} :
         /\ \A i \in 1..Len(nodes) : ObjExists(scene, nodes[i])
         /\ LET item  == [ItemAt(tree, current) EXCEPT
                            !.data = PoseData(MakePoseParameter(scene, nodes))]
                items == ReplaceAt(tree, current, item)
                saved == SaveScenePoseData(files, isLoading, warned, scenePath, items)
            IN  /\ tree' = items
                /\ files' = saved.files
                /\ warned' = saved.warned
    /\ last' = PanelOp("update")
    /\ UNCHANGED <<scene, sel, curTime, curve, memo, rangeMemo, snap,
                   current, scenePath, pending, isLoading>>

\* the current item after rows were removed or moved: the view picks one
CurrentAfter(items) == {<<>>} \cup PathsOf(items)

\* _click_delete
ClickDelete ==
    /\ current # <<>>
    /\ pending < MaxPending
    /\ LET items == RemoveAt(tree, current)
           saved == SaveScenePoseData(files, isLoading, warned, scenePath, items)
       IN  /\ tree' = items
           /\ current' \in CurrentAfter(items)
           /\ files' = saved.files
           /\ warned' = saved.warned
    /\ pending' = TreeStructureChanged(pending, 1)
    /\ last' = PanelOp("delete")
    /\ UNCHANGED <<scene, sel, curTime, curve, memo, rangeMemo, snap,
                   scenePath, isLoading>>

\* _click_new_folder: the folder is always added at the top level
ClickNewFolder ==
    /\ CountItems(tree) < MaxItems
    /\ pending < MaxPending
    /\ LET items == Append(tree, NewItem(<<"New Folder">>, FolderData))
           saved == SaveScenePoseData(files, isLoading, warned, scenePath, items)
       IN  /\ tree' = items
           /\ current' = <<Len(items)>>
           /\ files' = saved.files
           /\ warned' = saved.warned
    /\ pending' = TreeStructureChanged(pending, 1)
    /\ last' = PanelOp("new_folder")
    /\ UNCHANGED <<scene, sel, curTime, curve, memo, rangeMemo, snap,
                   scenePath, isLoading>>

\* the top-level folders, in their order
RECURSIVE FoldersOf(_)
FoldersOf(items) ==
    IF items = <<>> THEN <<>>
    ELSE (IF Head(items).data.type = "folder" THEN <<Head(items)>> ELSE <<>>)
         \o FoldersOf(Tail(items))

\* _click_delete_tmp: every top-level item that is no folder is taken out
ClickDeleteTmp ==
    \E items \in {FoldersOf(tree)} :
        /\ pending + (Len(tree) - Len(items)) <= MaxPending
        /\ tree' = items
        /\ current' \in IF current = <<>> THEN {<<>>}
                        ELSE IF tree[Head(current)].data.type = "folder"
                        THEN {<<Len(FoldersOf(SubSeq(tree, 1, Head(current))))>>
                              \o Tail(current)}
                        ELSE CurrentAfter(items)
        /\ pending' = TreeStructureChanged(pending, Len(tree) - Len(items))
        /\ \E saved \in {SaveScenePoseData(files, isLoading, warned, scenePath, items)} :
             /\ files' = saved.files
             /\ warned' = saved.warned
        /\ last' = PanelOp("delete_tmp")
        /\ UNCHANGED <<scene, sel, curTime, curve, memo, rangeMemo, snap,
                       scenePath, isLoading>>

\* the names the animator types
RenameNames == {<<"w">>}

\* the animator edits the text of an item: itemChanged, _tree_item_changed
Rename(path, name) ==
    /\ path \in PathsOf(tree)
    /\ ItemAt(tree, path).name # name
    /\ LET items == ReplaceAt(tree, path, [ItemAt(tree, path) EXCEPT !.name = name])
           saved == SaveScenePoseData(files, isLoading, warned, scenePath, items)
       IN  /\ tree' = items
           /\ files' = saved.files
           /\ warned' = saved.warned
    /\ last' = PanelOp("rename")
    /\ UNCHANGED <<scene, sel, curTime, curve, memo, rangeMemo, snap,
                   current, scenePath, pending, isLoading>>

\* p is q or an ancestor of q
IsPrefix(p, q) == Len(p) <= Len(q) /\ SubSeq(q, 1, Len(p)) = p

\* the path of the item at q once the item at p, outside which q lies, is taken out
PathWithout(q, p) ==
    IF /\ Len(p) <= Len(q)
       /\ SubSeq(q, 1, Len(p) - 1) = SubSeq(p, 1, Len(p) - 1)
       /\ q[Len(p)] > p[Len(p)]
    THEN [q EXCEPT ![Len(p)] = @ - 1]
    ELSE q

\* the animator drags an item onto a folder, or between the top-level items
\* (InternalMove): it becomes the last child there.  The rows signals of the
\* move only queue deferred saves, one or two of them.
DragMove(path, target, signals) ==
    /\ path \in PathsOf(tree)
    /\ target = <<>> \/ target \in PathsOf(tree)
    /\ target # <<>> => ItemAt(tree, target).data.type = "folder"
    /\ ~IsPrefix(path, target)
    /\ pending + signals <= MaxPending
    /\ LET items == AppendUnder(RemoveAt(tree, path), PathWithout(target, path),
                                ItemAt(tree, path))
       IN  /\ items # tree
           /\ tree' = items
           /\ current' \in CurrentAfter(items)
    /\ pending' = TreeStructureChanged(pending, signals)
    /\ last' = PanelOp("move")
    /\ UNCHANGED <<scene, sel, curTime, curve, memo, rangeMemo, snap,
                   scenePath, files, isLoading, warned>>

\* _click_load with the file the dialog gave, when _load_scene_pose_data accepts it
ClickLoad(file_path) ==
    /\ LoadAccepts(files, file_path)
    /\ CountItems(RestoreItems(files[file_path].items)) <= MaxItems
    /\ \E loaded \in {LoadScenePoseData(files, warned, scenePath, file_path)} :
         /\ tree' = loaded.tree
         /\ files' = loaded.files
         /\ warned' = loaded.warned
    /\ current' = <<>>
    /\ isLoading' = FALSE
    /\ last' = PanelOp("load")
    /\ UNCHANGED <<scene, sel, curTime, curve, memo, rangeMemo, snap,
                   scenePath, pending>>

\* _click_load when the dialog was cancelled, or _load_scene_pose_data returns
\* at one of lines 593-614: nothing of the panel is touched
ClickLoadRejected(file_path) ==
    /\ ~LoadAccepts(files, file_path)
    /\ last' = PanelOp("load_rejected")
    /\ UNCHANGED <<scene, sel, curTime, curve, memo, rangeMemo, snap, panel>>

\* a queued QTimer.singleShot(0, self._save_scene_pose_data) runs
RunDeferredSave ==
    /\ pending > 0
    /\ pending' = pending - 1
    /\ \E saved \in {SaveScenePoseData(files, isLoading, warned, scenePath, tree)} :
         /\ files' = saved.files
         /\ warned' = saved.warned
    /\ UNCHANGED <<scene, sel, curTime, curve, memo, rangeMemo, snap, last,
                   tree, current, scenePath, isLoading>>

\* the animator saves the scene under a name, opens another or starts a new one
UserSceneChange(scene_path) ==
    /\ scene_path # scenePath
    /\ scenePath' = scene_path
    /\ last' = NoCall
    /\ UNCHANGED <<scene, sel, curTime, curve, memo, rangeMemo, snap,
                   tree, current, files, pending, isLoading, warned>>

\* the animator clicks an item, or the empty part of the tree
UserSetCurrent(path) ==
    /\ path # current
    /\ path = <<>> \/ path \in PathsOf(tree)
    /\ current' = path
    /\ UNCHANGED <<scene, sel, curTime, curve, memo, rangeMemo, snap, last,
                   tree, scenePath, files, pending, isLoading, warned>>

----------------------------------------------------------------------------
(* SpecPanel: the panel over a scene with one animated, selected node.      *)

SceneA == <<"A", ".", "m", "b">>

ScenePaths == {<<>>, SceneA}

\* two pose files kept outside the scenes
LibPath == <<"l", "i", "b", ".", "j", "s", "o", "n">>

OldPath == <<"o", "l", "d", ".", "j", "s", "o", "n">>

\* a serialized pose of NodeC at rest
RestPoseJson ==
    <<[k |-> NodeC, v |-> [translate |-> <<0, 0, 0>>, rotate |-> <<0, 0, 0, 1>>]]>>

\* the file at LibPath holds a bare list of items
LibJson ==
    [json |-> "list",
     items |-> <<[name |-> <<"q">>, type |-> "pose", pose |-> RestPoseJson]>>]

\* the file at OldPath holds an object of another version
OldJson == [json |-> "object", version |-> 2, items |-> <<>>]

\* a path where no file is
MissingPath == <<"n", "o", "n", "e">>

\* files that are no JSON, an object without a list of items, a bare number
BrokenFiles ==
    (<<"b", "a", "d">> :> [json |-> "corrupt"])
    @@ (<<"o", "b", "j">> :> [json |-> "object", version |-> SCENE_FILE_VERSION])
    @@ (<<"n", "u", "m">> :> [json |-> "number"])

\* what the file dialog of _click_load can give: a file, no file, or nothing
LoadChoices == DOMAIN files \cup {MissingPath, <<>>}

PanelCurve == (NodeC :> [NoKeys EXCEPT !["rz"] = {<<1, 180>>, <<2, 0>>}])

PanelRest == (NodeC :> RestAttrs)

\* the values of the two range spin boxes
RangeSpins == {<<2, 1>>, <<2, 2>>}

\* the panel is constructed: __init__ ends with _load_scene_pose_data(), which
\* finds no pose file of the scene
InitPanel ==
    /\ curve = PanelCurve
    /\ curTime \in Frames
    /\ scene = SceneAtTime(PanelRest, PanelCurve, curTime)
    /\ sel = <<NodeC>>
    /\ memo = <<>>
    /\ rangeMemo = <<>>
    /\ snap = <<>>
    /\ last = NoCall
    /\ tree = <<>>
    /\ current = <<>>
    /\ scenePath \in ScenePaths
    /\ files = (LibPath :> LibJson) @@ (OldPath :> OldJson) @@ BrokenFiles
    /\ pending = 0
    /\ isLoading = FALSE
    /\ warned = FALSE

NextPanel ==
    \/ ClickMemorize
    \/ \E spins \in RangeSpins : ClickRangeMemorize(spins[1], spins[2])
    \/ ClickUpdate
    \/ ClickDelete
    \/ ClickNewFolder
    \/ ClickDeleteTmp
    \/ \E path \in PathsOf(tree), name \in RenameNames : Rename(path, name)
    \/ \E path \in PathsOf(tree), target \in CurrentAfter(tree), signals \in {1, 2} :
         DragMove(path, target, signals)
    \/ \E file_path \in DOMAIN files : ClickLoad(file_path)
    \/ \E file_path \in LoadChoices : ClickLoadRejected(file_path)
    \/ RunDeferredSave
    \/ \E scene_path \in ScenePaths :
         \* the untitled scene is saved under a name
         /\ scenePath = <<>>
         /\ UserSceneChange(scene_path)
    \/ \E path \in CurrentAfter(tree) : UserSetCurrent(path)

SpecPanel == InitPanel /\ [][NextPanel]_vars

----------------------------------------------------------------------------
(* SpecScenes: the panel stays open while the animator goes from scene A to *)
(* scene B, whose pose file exists already.                                 *)

SceneB == <<"B", ".", "m", "b">>

\* the pose file of scene B, written in an earlier session
SceneBJson ==
    [json |-> "object", version |-> SCENE_FILE_VERSION,
     items |-> <<[name |-> <<"k", "e", "e", "p">>, type |-> "folder"]>>]

\* the panel is constructed in scene A, which has no pose file yet
InitScenes ==
    /\ curve = PanelCurve
    /\ curTime \in Frames
    /\ scene = SceneAtTime(PanelRest, PanelCurve, curTime)
    /\ sel = <<NodeC>>
    /\ memo = <<>>
    /\ rangeMemo = <<>>
    /\ snap = <<>>
    /\ last = NoCall
    /\ tree = <<>>
    /\ current = <<>>
    /\ scenePath = SceneA
    /\ files = (SceneJsonPath(SceneB) :> SceneBJson)
    /\ pending = 0
    /\ isLoading = FALSE
    /\ warned = FALSE

NextScenes ==
    \/ ClickMemorize
    \/ ClickNewFolder
    \/ ClickDelete
    \/ \E path \in PathsOf(tree), name \in RenameNames : Rename(path, name)
    \/ RunDeferredSave
    \/ \E path \in CurrentAfter(tree) : UserSetCurrent(path)
    \/ \* scene B is opened
       /\ scenePath = SceneA
       /\ UserSceneChange(SceneB)

SpecScenes == InitScenes /\ [][NextScenes]_vars

----------------------------------------------------------------------------
(* SpecLoad: _load_scene_pose_data step by step.  The load runs inside one  *)
(* handler, so no other handler runs while the loading flag is up; the      *)
(* signals of the rebuilt tree reach _tree_item_changed and                 *)
(* _tree_structure_changed inside the steps.                                *)

\* _load_scene_pose_data, lines 593-618: the file is accepted, the flag goes up
\* and the tree is cleared; last.items are the entries still to restore
LoadBegin(file_path) ==
    /\ ~isLoading
    /\ LoadAccepts(files, file_path)
    /\ isLoading' = TRUE
    /\ tree' = <<>>
    /\ current' = <<>>
    /\ last' = [PanelOp("loading") EXCEPT !.items = files[file_path].items]
    /\ UNCHANGED <<scene, sel, curTime, curve, memo, rangeMemo, snap,
                   scenePath, files, pending, warned>>

\* _load_scene_pose_data, lines 619-624, one round of the loop: an entry that
\* is no object is skipped; else the item and its children are added, each
\* emitting rowsInserted and itemChanged; when _restore_tree_item raises, the
\* finally clause takes the flag down and the load ends there
LoadRestore ==
    /\ isLoading
    /\ last.items # <<>>
    /\ \E item_data \in {Head(last.items)} :
         IF "json" \in DOMAIN item_data
         THEN /\ last' = [last EXCEPT !.items = Tail(@)]
              /\ UNCHANGED <<tree, files, warned, pending, isLoading>>
         ELSE \E item \in {IF RestoreRaises(item_data) THEN RestorePartial(item_data)
                           ELSE RestoreTreeItem(item_data)} :
              \E saved \in {SaveScenePoseData(files, isLoading, warned, scenePath,
                                              Append(tree, item))} :
                /\ tree' = Append(tree, item)
                /\ files' = saved.files
                /\ warned' = saved.warned
                /\ pending' = TreeStructureChanged(pending, CountItems(<<item>>))
                /\ isLoading' = ~RestoreRaises(item_data)
                /\ last' = IF RestoreRaises(item_data)
                           THEN [PanelOp("load_raised") EXCEPT !.raised = TRUE]
                           ELSE [last EXCEPT !.items = Tail(@)]
    /\ UNCHANGED <<scene, sel, curTime, curve, memo, rangeMemo, snap,
                   current, scenePath>>

\* _load_scene_pose_data, lines 623-628: the loop is through, the flag goes
\* down, and the tree is saved when the scene has a path
LoadEnd ==
    /\ isLoading
    /\ last.items = <<>>
    /\ isLoading' = FALSE
    /\ \E saved \in {IF scenePath # <<>>
                     THEN SaveScenePoseData(files, FALSE, warned, scenePath, tree)
                     ELSE [files |-> files, warned |-> warned]} :
         /\ files' = saved.files
         /\ warned' = saved.warned
    /\ last' = PanelOp("load")
    /\ UNCHANGED <<scene, sel, curTime, curve, memo, rangeMemo, snap,
                   tree, current, scenePath, pending>>

\* a pose file with a folder holding a pose, an entry that is no object, and
\* a range
NestedJson ==
    [json |-> "object",
     items |-> <<[name |-> <<"f">>, type |-> "folder",
                  children |-> <<[name |-> <<"q">>, type |-> "pose",
                                  pose |-> RestPoseJson]>>],
                 [json |-> "number"],
                 [name |-> <<"r">>, type |-> "range",
                  poses |-> <<[frame |-> 1, pose |-> RestPoseJson]>>]>>]

\* a pose file whose second item has, after a good child, a child that is no
\* object
RaisingJson ==
    [json |-> "list",
     items |-> <<[name |-> <<"q">>, type |-> "pose", pose |-> RestPoseJson],
                 [name |-> <<"f">>, type |-> "folder",
                  children |-> <<[name |-> <<"g">>, type |-> "folder"],
                                 [json |-> "string"],
                                 [name |-> <<"h">>, type |-> "folder"]>>],
                 [name |-> <<"z">>, type |-> "folder"]>>]

\* a pose file with an item of a type the panel does not know, holding a
\* pose, and an item without a type
OtherTypeJson ==
    [json |-> "list",
     items |-> <<[name |-> <<"u">>, type |-> "camera",
                  children |-> <<[name |-> <<"q">>, type |-> "pose",
                                  pose |-> RestPoseJson]>>],
                 [name |-> <<"v">>]>>]

\* the names the animator types in SpecLoad: a text, or none at all
LoadRenameNames == RenameNames \cup {<<>>}

InitLoad ==
    /\ curve = PanelCurve
    /\ curTime \in Frames
    /\ scene = SceneAtTime(PanelRest, PanelCurve, curTime)
    /\ sel = <<NodeC>>
    /\ memo = <<>>
    /\ rangeMemo = <<>>
    /\ snap = <<>>
    /\ last = NoCall
    /\ tree = <<>>
    /\ current = <<>>
    /\ scenePath \in ScenePaths
    /\ files = (LibPath :> LibJson) @@ (OldPath :> OldJson)
               @@ (<<"n", "e", "s", "t">> :> NestedJson)
               @@ (<<"r", "a", "i", "s", "e">> :> RaisingJson)
               @@ (<<"t", "y", "p", "e">> :> OtherTypeJson)
    /\ pending = 0
    /\ isLoading = FALSE
    /\ warned = FALSE

NextLoad ==
    \/ \E file_path \in DOMAIN files : LoadBegin(file_path)
    \/ LoadRestore
    \/ LoadEnd
    \/ ~isLoading /\ ClickNewFolder
    \/ ~isLoading /\ ClickDelete
    \/ ~isLoading /\ RunDeferredSave
    \/ ~isLoading /\ \E path \in CurrentAfter(tree) : UserSetCurrent(path)
    \/ ~isLoading /\ \E path \in PathsOf(tree), name \in LoadRenameNames :
                       Rename(path, name)

SpecLoad == InitLoad /\ [][NextLoad]_vars

----------------------------------------------------------------------------
(* gui.py: OptionFile, the panel's options kept in the preferences.         *)

\* OptionFile._file_path
OptionPath == <<"o", "p", "t", "i", "o", "n", ".", "j", "s", "o", "n">>

\* OptionFile.version (pose_memorizer._version)
OptionVersion == "current"

\* what the option file can hold: the options an earlier save wrote, of this
\* or another version or of none, JSON that is no object, and text that is no
\* JSON (an empty file is such text)
OptionObjects ==
    {[json |-> "object", version |-> v, mirror_axis |-> a, mirror |-> m,
      setkey |-> k, namespace |-> n]
        : v \in {OptionVersion, "older"}, a \in {"X", "Y", "Z"},
          m \in BOOLEAN, k \in BOOLEAN, n \in BOOLEAN}
    \cup {[json |-> "object", mirror_axis |-> "X", mirror |-> m, setkey |-> FALSE,
           namespace |-> TRUE]
        : m \in BOOLEAN}

OptionContents ==
    OptionObjects
    \cup {[json |-> j] : j \in {"list", "number", "string", "null", "corrupt"}}

\* OptionFile.load: what it returns, or that it raised
OptionFileLoad(fs) ==
    IF OptionPath \notin DOMAIN fs
    THEN [raised |-> FALSE, ret |-> <<>>]
    ELSE IF fs[OptionPath].json = "corrupt"
    THEN [raised |-> FALSE, ret |-> <<>>]
    ELSE IF fs[OptionPath].json # "object"
    THEN [raised |-> TRUE, ret |-> <<>>]
    ELSE IF Get(fs[OptionPath], "version", None) # OptionVersion
    THEN [raised |-> FALSE, ret |-> <<>>]
    ELSE [raised |-> FALSE, ret |-> <<fs[OptionPath]>>]

\* _option_load: the panel reads its options; ret holds the data, if any
OptionLoad ==
    /\ last' = [NoCall EXCEPT !.op = "option_load",
                              !.ret = OptionFileLoad(files).ret,
                              !.raised = OptionFileLoad(files).raised]
    /\ UNCHANGED <<scene, sel, curTime, curve, memo, rangeMemo, snap, panel>>

\* _option_save: OptionFile.save writes the version and the options
OptionSave(mirror_axis, mirror, setkey, namespace) ==
    /\ files' = (OptionPath :> [json |-> "object", version |-> OptionVersion,
                                mirror_axis |-> mirror_axis, mirror |-> mirror,
                                setkey |-> setkey, namespace |-> namespace]) @@ files
    /\ files' # files
    /\ last' = NoCall
    /\ UNCHANGED <<scene, sel, curTime, curve, memo, rangeMemo, snap,
                   tree, current, scenePath, pending, isLoading, warned>>

\* the file is written by something else: an older release, an editor, a crash
UserWritesOptionFile(content) ==
    /\ files' = (OptionPath :> content) @@ files
    /\ files' # files
    /\ last' = NoCall
    /\ UNCHANGED <<scene, sel, curTime, curve, memo, rangeMemo, snap,
                   tree, current, scenePath, pending, isLoading, warned>>

\* the first start: no option file yet
InitOption ==
    /\ scene = <<>>
    /\ sel = <<>>
    /\ curTime = 1
    /\ curve = <<>>
    /\ memo = <<>>
    /\ rangeMemo = <<>>
    /\ snap = <<>>
    /\ last = NoCall
    /\ PanelClosed

NextOption ==
    \/ OptionLoad
    \/ \E mirror_axis \in {"X", "Y", "Z"}, mirror \in BOOLEAN, setkey \in BOOLEAN,
          namespace \in BOOLEAN :
         OptionSave(mirror_axis, mirror, setkey, namespace)
    \/ \E content \in OptionContents : UserWritesOptionFile(content)

SpecOption == InitOption /\ [][NextOption]_vars

----------------------------------------------------------------------------
(* Properties of the pose math (SpecMath).                                  *)

Applied == last.op = "apply_pose"

\* the rig attributes of node n are what they were when the pose was captured
RigUnchanged(n) ==
    /\ n \in DOMAIN snap
    /\ scene[n].ro = snap[n].ro
    /\ scene[n].ra = snap[n].ra
    /\ scene[n].hasJO = snap[n].hasJO
    /\ scene[n].hasJO => scene[n].jo = snap[n].jo

\* C1: capture then re-apply is a round trip. After apply_pose with mirror
\* off, for every target that received its own captured entry and whose
\* rotateOrder, rotateAxis and jointOrient are as they were at get_pose, the
\* quaternion inv_axis * rot_qua * inv_orient is the quaternion of the rotate
\* value captured, and the translation to apply is the captured translation.
C1_RoundTrip ==
    (Applied /\ ~last.mirror) =>
        \A i \in 1..Len(last.target) :
            LET n == last.target[i].k
            IN  (/\ DictHas(memo, n)
                 /\ last.target[i].v = DictGet(memo, n)
                 /\ RigUnchanged(n))
                => /\ last.quat[i].v = ConvertQuaternion(snap[n].r, snap[n].ro)
                   /\ last.tr[i].v[1] = snap[n].t

\* a round trip through a rig with a rotation order other than xyz, a rotate
\* axis and a joint orient that are not the identity, and two rotated axes
C1_Witness ==
    /\ Applied /\ ~last.mirror
    /\ Len(last.target) = 1
    /\ last.target[1].k = MathNode
    /\ RigUnchanged(MathNode)
    /\ snap[MathNode].ro = 5
    /\ snap[MathNode].ra # <<0, 0, 0>>
    /\ snap[MathNode].hasJO /\ snap[MathNode].jo # <<0, 0, 0>>
    /\ snap[MathNode].r # <<0, 0, 0>>
    /\ last.quat[1].v # last.target[1].v.rotate

\* the index of the component an axis name stands for
AxisIndex(axis) ==
    CASE axis \in {"X", "x"} -> 1
      [] axis \in {"Y", "y"} -> 2
      [] axis \in {"Z", "z"} -> 3

\* v with the components whose index is in idx negated
Negated(v, idx) == [j \in 1..Len(v) |-> IF j \in idx THEN 0 - v[j] ELSE v[j]]

\* C2: with mirror on and mirror axis A (upper or lower case), the translation
\* to apply is the stored translation with exactly component A negated, and
\* the quaternion composed with inv_axis and inv_orient is the stored
\* quaternion with exactly component A and component w negated.
C2_MirrorSigns ==
    (Applied /\ last.mirror) =>
        \A i \in 1..Len(last.target) :
            LET a == AxisIndex(last.mirror_axis)
                p == last.target[i].v
            IN  /\ last.tr[i].v[1] = Negated(p.translate, {a})
                /\ last.fed[i].v = Negated(p.rotate, {a, 4})
                /\ last.quat[i].v =
                     QMul(QMul(InvAxis(scene[last.target[i].k]), last.fed[i].v),
                          InvOrient(scene[last.target[i].k]))

\* a mirrored apply about Y, given in lower or upper case, of a pose whose
\* quaternion has a w that is not zero
C2_Witness ==
    /\ Applied /\ last.mirror
    /\ last.mirror_axis \in {"Y", "y"}
    /\ Len(last.target) = 1
    /\ last.target[1].v.rotate[4] # 0
    /\ last.fed[1].v # last.target[1].v.rotate
    /\ last.tr[1].v[1] = <<1, -2, 3>>

\* a mirrored apply whose axis is given in lower case
C2_WitnessLower ==
    /\ Applied /\ last.mirror
    /\ last.mirror_axis = "z"
    /\ Len(last.target) = 1
    /\ last.target[1].v.rotate[3] # 0
    /\ last.tr[1].v[1] = <<1, 2, -3>>

----------------------------------------------------------------------------
(* Properties of the choice of the targets (SpecTarget).                    *)

\* sep.join(parts)
RECURSIVE JoinWith(_, _)
JoinWith(parts, sep) ==
    IF Len(parts) = 1 THEN parts[1]
    ELSE parts[1] \o sep \o JoinWith(Tail(parts), sep)

\* the name the claim gives a pose entry: every occurrence of left replaced
\* by right when the name contains left, otherwise every occurrence of right
\* replaced by left when it contains right, otherwise the name itself
Retargeted(n, left, right) ==
    IF Len(Split(n, left)) > 1 THEN JoinWith(Split(n, left), right)
    ELSE IF Len(Split(n, right)) > 1 THEN JoinWith(Split(n, right), left)
    ELSE n

\* the text after the last ":" of a name
AfterLastColon(name) ==
    LET k == CHOOSE k \in 1..(Len(name) + 1) :
                /\ \A j \in k..Len(name) : name[j] # ":"
                /\ k = 1 \/ name[k - 1] = ":"
    IN  SubSeq(name, k, Len(name))

\* C3: with mirror on and mirror name "L : R", every pose entry is found
\* under its retargeted name (L replaced by R, else R replaced by L, else
\* kept), carrying the values of the last entry that got that name, and the
\* retargeted pose has no other name; with mirror off the pose is unchanged.
C3_Retarget ==
    Applied =>
        IF last.mirror
        THEN LET parts  == Split(last.mirror_name, <<" ", ":", " ">>)
                 new(i) == Retargeted(last.pose[i].k, parts[1], parts[2])
                 src(i) == CHOOSE j \in 1..Len(last.pose) :
                              /\ new(j) = new(i)
                              /\ \A o \in 1..Len(last.pose) : new(o) = new(i) => o <= j
             IN  /\ \A i \in 1..Len(last.pose) :
                        /\ DictHas(last.change, new(i))
                        /\ DictGet(last.change, new(i)) = last.pose[src(i)].v
                 /\ \A c \in 1..Len(last.change) :
                        \E i \in 1..Len(last.pose) : new(i) = last.change[c].k
        ELSE last.change = last.pose

\* a mirrored apply of a pose of a left and a right node: each takes the
\* other's name and keeps its own values
C3_Witness ==
    /\ Applied /\ last.mirror
    /\ last.mirror_name = MirrorNameLR
    /\ DictKeys(last.pose) = <<NodeAL, NodeAR>>
    /\ DictKeys(last.change) = <<NodeAR, NodeAL>>
    /\ last.pose[1].v # last.pose[2].v
    /\ last.change[1].v = last.pose[1].v

\* C4: with Namespace Match on, the targets are exactly the retargeted pose
\* entries whose full name is selected or, with nothing selected, exists in
\* the scene; a node named by no entry is no target.
C4_NamespaceTargets ==
    (Applied /\ last.namespace) =>
        /\ SeqToSet(last.target) =
             {e \in SeqToSet(last.change) :
                 IF sel # <<>> THEN e.k \in SeqToSet(sel) ELSE e.k \in DOMAIN scene}
        /\ \A n \in DOMAIN scene : ~DictHas(last.change, n) => ~DictHas(last.target, n)

\* nothing selected: of two retargeted entries one names a node that is not in
\* the scene and is dropped
C4_Witness ==
    /\ Applied /\ last.namespace
    /\ sel = <<>>
    /\ Len(last.change) = 2
    /\ Len(last.target) = 1
    /\ \E i \in 1..2 : last.change[i].k \notin DOMAIN scene

\* C5 as claimed: with Namespace Match off and a selection, every selected
\* transform whose base name is the base name of some pose entry is a target
\* and has that entry's values, and every target is selected.
C5_SelectedBaseNames ==
    (Applied /\ ~last.namespace /\ sel # <<>>) =>
        /\ \A s \in 1..Len(sel) :
              (\E i \in 1..Len(last.change) :
                  AfterLastColon(last.change[i].k) = AfterLastColon(sel[s]))
              => /\ DictHas(last.target, sel[s])
                 /\ \E i \in 1..Len(last.change) :
                       /\ AfterLastColon(last.change[i].k) = AfterLastColon(sel[s])
                       /\ DictGet(last.target, sel[s]) = last.change[i].v
        /\ \A i \in 1..Len(last.target) : last.target[i].k \in SeqToSet(sel)

\* C6: with Namespace Match off and nothing selected, the targets are the
\* transforms of the scene whose base name is the base name of some pose
\* entry, each with the values of the first such entry of the pose.
C6_SceneBaseNames ==
    (Applied /\ ~last.namespace /\ sel = <<>>) =>
        /\ \A n \in DOMAIN scene :
              LET same == {i \in 1..Len(last.change) :
                              AfterLastColon(last.change[i].k) = AfterLastColon(n)}
                  first == CHOOSE i \in same : \A o \in same : i <= o
              IN  IF same # {}
                  THEN /\ DictHas(last.target, n)
                       /\ DictGet(last.target, n) = last.change[first].v
                  ELSE ~DictHas(last.target, n)
        /\ \A i \in 1..Len(last.target) : last.target[i].k \in DOMAIN scene

\* two entries of one base name and different values: both nodes are targets
\* and both take the values of the first entry
C6_Witness ==
    /\ Applied /\ ~last.namespace /\ sel = <<>>
    /\ DictKeys(last.change) = <<NodeNAL, NodeAL>>
    /\ last.change[1].v # last.change[2].v
    /\ DictHas(last.target, NodeAL) /\ DictHas(last.target, NodeNAL)
    /\ DictGet(last.target, NodeAL) = last.change[1].v
    /\ DictGet(last.target, NodeNAL) = last.change[1].v

----------------------------------------------------------------------------
(* Properties of the range calls and of the two ways to write (SpecRange).  *)

\* the commands of a MEL text that write a value: all but the closing dgdirty
Writing(cmd) == {i \in 1..Len(cmd) : cmd[i].cmd # "dgdirty"}

Writers(cmd) == {cmd[i].cmd : i \in Writing(cmd)}

Triples(cmd) == {<<cmd[i].node, cmd[i].at, cmd[i].v>> : i \in Writing(cmd)}

SequenceApplied == last.op = "apply_pose_sequence"

C7_WitnessSetAttr ==
    /\ Applied /\ ~last.setkey
    /\ Cardinality(Triples(last.evals[1].cmd)) = 2
    /\ Writers(last.evals[1].cmd) = {"setAttr"}

C7_WitnessSequence ==
    /\ SequenceApplied /\ ~last.setkey
    /\ Len(last.evals) = 2
    /\ Writers(last.evals[1].cmd) = {"setKeyframe"}

\* the distinct key times the nodes have inside [start, end]
KeyTimesIn(nodes, start, end) ==
    {f \in start..end :
        \E i \in 1..Len(nodes), ch \in ChannelSet :
            \E k \in curve[nodes[i]][ch] : k[1] = f}

RangeSampled == last.op = "get_pose_range"

\* C8: get_pose_range returns one entry per distinct key time the chosen
\* transforms have inside [start, end], in strictly ascending frame order, each
\* with the pose all chosen transforms have at that frame; it returns the empty
\* list when no transform is chosen or selected, when the key query fails, and
\* when no key is in the range.
C8_RangeEntries ==
    RangeSampled =>
        LET nodes == last.nodes
            ret   == last.ret
        IN  IF Len(nodes) = 0 THEN ret = <<>>
            ELSE IF \E i \in 1..Len(nodes) : ~ObjExists(scene, nodes[i]) THEN ret = <<>>
            ELSE IF KeyTimesIn(nodes, last.range[1], last.range[2]) = {} THEN ret = <<>>
            ELSE /\ Len(ret) = Cardinality(KeyTimesIn(nodes, last.range[1], last.range[2]))
                 /\ {ret[i].frame : i \in 1..Len(ret)}
                      = KeyTimesIn(nodes, last.range[1], last.range[2])
                 /\ \A i \in 1..(Len(ret) - 1) : ret[i].frame < ret[i + 1].frame
                 /\ \A i \in 1..Len(ret) :
                      LET at == SceneAtTime(scene, curve, ret[i].frame)
                      IN  /\ DictKeys(ret[i].pose) = nodes
                          /\ \A j \in 1..Len(nodes) :
                               /\ ret[i].pose[j].v.translate = at[nodes[j]].t
                               /\ ret[i].pose[j].v.rotate = GetQuaternion(at[nodes[j]])

\* both nodes are sampled at two frames; the query names the later frame first
\* and one frame twice, and the two poses differ
C8_Witness ==
    /\ RangeSampled /\ last.nodes = <<NodeC, NodeD>>
    /\ Len(last.ret) = 2
    /\ KeyframeQuery(scene, curve, last.nodes, last.range[1], last.range[2]).times
         = <<2, 1, 2>>
    /\ last.ret[1].pose # last.ret[2].pose

C8_WitnessQueryFails ==
    /\ RangeSampled /\ last.nodes = <<NodeD, NodeGone>> /\ last.ret = <<>>
    /\ curve[NodeD]["ty"] # {}

C8_WitnessNoneChosen == RangeSampled /\ last.nodes = <<>> /\ last.ret = <<>>

C8_WitnessNoKey ==
    /\ RangeSampled /\ last.nodes = <<NodeD>> /\ last.ret = <<>>
    /\ last.range = <<1, 1>> /\ curve[NodeD]["ty"] # {}

----------------------------------------------------------------------------
(* Properties of the panel (SpecPanel).                                     *)

\* the handlers and edits that change the tree
TreeOps ==
    {"memorize", "range_memorize", "update", "delete", "new_folder", "delete_tmp",
     "rename", "move", "load"}

\* a tree-changing operation has completed since the scene got its path, and
\* every deferred save has run
TreeOpSettled == last.op \in TreeOps /\ pending = 0

C10_MemorizeName ==
    [][ClickMemorize =>
         /\ CountItems(tree') = CountItems(tree) + 1
         /\ ItemAt(tree', current').data.type = "pose"
         /\ ItemAt(tree', current').name = <<"PoseF_">> \o FormatG(curTime)]_vars

\* what the code does: the name is TMPPoseF_<CurrentFrame> for an item added at
\* the top level and PoseF_<CurrentFrame> for one added in a folder
C10_MemorizeNameByParent ==
    [][ClickMemorize =>
         /\ CountItems(tree') = CountItems(tree) + 1
         /\ ItemAt(tree', current').data.type = "pose"
         /\ ItemAt(tree', current').name
              = (IF Len(current') = 1 THEN <<"TMPPoseF_">> ELSE <<"PoseF_">>)
                \o FormatG(curTime)]_vars

----------------------------------------------------------------------------
(* Properties of the option file (SpecOption).                              *)

OptionLoaded == last.op = "option_load"

\* C11: OptionFile.load exits safely for every content of the option file: it
\* returns None without raising when the file is missing, empty, corrupt (any
\* content that is not a JSON object) or of a different version, and returns
\* the stored data only when the file is a JSON object of the current version.
C11_OptionLoadSafe ==
    OptionLoaded =>
        /\ ~last.raised
        /\ IF /\ OptionPath \in DOMAIN files
              /\ files[OptionPath].json = "object"
              /\ "version" \in DOMAIN files[OptionPath]
              /\ files[OptionPath].version = OptionVersion
           THEN last.ret = <<files[OptionPath]>>
           ELSE last.ret = <<>>

\* what the code does: the same, but for a file that holds JSON that is no
\* object, on which load raises
C11_OptionLoadRaisesOnNonObject ==
    OptionLoaded =>
        /\ last.raised <=> /\ OptionPath \in DOMAIN files
                           /\ files[OptionPath].json \in {"list", "number", "string", "null"}
        /\ IF /\ OptionPath \in DOMAIN files
              /\ files[OptionPath].json = "object"
              /\ "version" \in DOMAIN files[OptionPath]
              /\ files[OptionPath].version = OptionVersion
           THEN last.ret = <<files[OptionPath]>>
           ELSE last.ret = <<>>
----------------------------------------------------------------------------
(* Properties of loading (SpecPanel).                                       *)

\* the file at file_path fails the validation of a load: it is missing, it is
\* no JSON, it is an object of a version other than none or 1, or its items
\* are no list
FailsValidation(fs, file_path) ==
    \/ file_path \notin DOMAIN fs
    \/ /\ file_path \in DOMAIN fs
       /\ \/ fs[file_path].json = "corrupt"
          \/ /\ fs[file_path].json = "object"
             /\ "version" \in DOMAIN fs[file_path]
             /\ fs[file_path].version # 1
          \/ /\ fs[file_path].json = "object"
             /\ "items" \notin DOMAIN fs[file_path]
          \/ fs[file_path].json \notin {"object", "list", "corrupt"}

\* C12: a load of a file that fails validation (missing, no JSON, a version
\* other than none or 1, items that are no list) leaves the tree and the
\* current item as they were and writes no file; so a load that clears the
\* tree is one of a file that passed all of the validation.
C12_RejectedLoadKeepsTree ==
    [][\A file_path \in LoadChoices \ {<<>>} :
          (/\ FailsValidation(files, file_path)
           /\ ClickLoad(file_path) \/ ClickLoadRejected(file_path))
          => /\ tree' = tree
             /\ current' = current
             /\ files' = files
             /\ pending' = pending
             /\ last'.op = "load_rejected"]_vars

\* a load was rejected while the panel held items and the scene had a path
C12_Witness ==
    /\ last.op = "load_rejected"
    /\ tree # <<>>
    /\ scenePath # <<>>
    /\ \E file_path \in DOMAIN files : FailsValidation(files, file_path)

----------------------------------------------------------------------------
(* Properties of a change of scene (SpecScenes).                            *)

\* C13: a save never replaces the existing pose file of a scene with a tree
\* built for another scene: once the animator has gone from scene A to scene
\* B while the panel stays open, the pose file of B still holds what it held
\* (the panel never builds a tree for B in SpecScenes).
C13_OtherSceneFileKept ==
    scenePath = SceneB => files[SceneJsonPath(SceneB)] = SceneBJson

\* what the code does: the tree built in scene A is written to the pose file
\* of whatever scene is current when the save runs
C13_SaveFollowsCurrentScene ==
    (TreeOpSettled /\ scenePath # <<>>) =>
        files[SceneJsonPath(scenePath)].items = SerializeTree(tree)

----------------------------------------------------------------------------
(* Properties of the load, step by step (SpecLoad).                         *)

\* a step that ends inside the rebuild of the tree, or where the restoring of
\* an item raised
Rebuilding == isLoading' \/ (isLoading /\ last'.raised)

\* C14: while _load_scene_pose_data rebuilds the tree no pose file is written
\* and no deferred save is queued, though the items added emit their signals;
\* the loading flag is down after every exit of the load, also when restoring
\* an item raised; and a load that went through saves the tree once, to the
\* pose file of the scene, when the scene has a path, and queues nothing.
C14_LoadSuppressesSaves ==
    [][/\ Rebuilding => (files' = files /\ pending' = pending)
       /\ last'.op \in {"load", "load_raised"} => ~isLoading'
       /\ (isLoading /\ last'.op = "load") =>
            /\ pending' = pending
            /\ tree' = tree
            /\ files' = IF scenePath = <<>> THEN files
                        ELSE (SceneJsonPath(scenePath)
                                :> [json |-> "object", version |-> 1,
                                    items |-> SerializeTree(tree)]) @@ files]_vars

\* a load went through in a scene with a path: the nested tree is in the
\* scene's pose file, and the deferred save queued before the load is the
\* only one waiting
C14_Witness ==
    /\ last.op = "load" /\ ~isLoading /\ scenePath = SceneA
    /\ pending = 1
    /\ Len(tree) = 2 /\ Len(tree[1].children) = 1 /\ tree[2].data.type = "range"
    /\ files[SceneJsonPath(SceneA)].items = SerializeTree(tree)

\* restoring the second item raised at its second child: the flag is down,
\* the tree is half built and the scene's pose file was not written
C14_WitnessRaised ==
    /\ last.op = "load_raised" /\ last.raised /\ ~isLoading /\ scenePath = SceneA
    /\ Len(tree) = 2 /\ Len(tree[2].children) = 1
    /\ SceneJsonPath(SceneA) \notin DOMAIN files

----------------------------------------------------------------------------
(* Properties of the locks (SpecLock).                                      *)

\* the value apply_pose computed for a channel of a node: m is the pair
\* (translate, rotate) of the node
ComputedValue(m, ch) ==
    CASE ch = "tx" -> m[1][1] [] ch = "ty" -> m[1][2] [] ch = "tz" -> m[1][3]
      [] ch = "rx" -> m[2][1] [] ch = "ry" -> m[2][2] [] ch = "rz" -> m[2][3]

\* the places of the commands of a MEL text that write channel ch of node n
Issued(cmd, n, ch) ==
    {i \in Writing(cmd) : cmd[i].node = n /\ cmd[i].at = ch}

\* C15: apply_pose never writes a locked channel: for every target node and
\* each of tx, ty, tz, rx, ry, rz the MEL text holds no command for a locked
\* channel and exactly one for an unlocked one, a setKeyframe when setkey is
\* true and a setAttr when it is false, carrying the computed value.
C15_LockedNeverWritten ==
    Applied =>
        /\ Len(last.evals) = 1
        /\ \A i \in Writing(last.evals[1].cmd) :
              \E k \in 1..Len(last.tr) : last.evals[1].cmd[i].node = last.tr[k].k
        /\ \A k \in 1..Len(last.tr), ch \in ChannelSet :
              LET n      == last.tr[k].k
                  cmd    == last.evals[1].cmd
                  issued == Issued(cmd, n, ch)
              IN  IF LongName(ch) \in scene[n].lock
                  THEN issued = {}
                  ELSE /\ Cardinality(issued) = 1
                       /\ \A i \in issued :
                            /\ cmd[i].v = ComputedValue(last.tr[k].v, ch)
                            /\ cmd[i].cmd = IF last.setkey THEN "setKeyframe"
                                            ELSE "setAttr"

\* a pose of both nodes was applied by setKeyframe: the first node has tx and
\* rz locked and gets four commands, the second is all unlocked and gets six
C15_Witness ==
    /\ Applied /\ last.setkey
    /\ Len(last.tr) = 2
    /\ scene[<<"c">>].lock = {"translateX", "rotateZ"}
    /\ scene[<<"d">>].lock = {}
    /\ Cardinality(Writing(last.evals[1].cmd)) = 10

\* the same by setAttr, with every channel of the first node locked
C15_WitnessSetAttr ==
    /\ Applied /\ ~last.setkey
    /\ Len(last.tr) = 2
    /\ scene[<<"c">>].lock = LongNames
    /\ Cardinality(Writing(last.evals[1].cmd)) = 4

----------------------------------------------------------------------------
(* Properties of a pose without a target (SpecTarget).                      *)

\* C16: when no node matches the pose, so that the target pose is empty,
\* apply_pose hands no command to mel.eval, as apply_pose_sequence hands none
\* for a frame without a target.  Stated for a pose that holds nodes.
C16_NoTargetNoCommand ==
    (Applied /\ last.pose # <<>> /\ last.target = <<>>) => last.evals = <<>>

\* what the code does: the text apply_pose builds always ends with dgdirty, so
\* it is never empty and is evaluated, with no set command in it, when the
\* target is empty; apply_pose_sequence evaluates only texts that set a value
C16_DgDirtyWithoutTarget ==
    /\ (Applied /\ last.target = <<>>) =>
          /\ Len(last.evals) = 1
          /\ last.evals[1].cmd = <<DgDirty(<<>>)>>
    /\ SequenceApplied =>
          \A i \in 1..Len(last.evals) : Writing(last.evals[i].cmd) # {}

----------------------------------------------------------------------------
(* Properties of the current time (SpecRange).                              *)

\* get_pose_range or apply_pose_sequence has just ended, by a return or by an
\* exception raised while it stepped through the frames
RangeCalls ==
    {"get_pose_range", "get_pose_range_raised",
     "apply_pose_sequence", "apply_pose_sequence_raised"}

\* C17: get_pose_range and apply_pose_sequence leave the current time as it
\* was when the call started (last.time0): after a call that stepped through
\* frames, to its end or until the host raised, the last edit of the time is
\* the one that sets it back; and a call that returns early (no transform
\* chosen or selected, failing key query, no key in the range, empty list of
\* poses) makes no edit of the time at all.
C17_TimeRestored ==
    last.op \in RangeCalls =>
        /\ curTime = last.time0
        /\ last.times # <<>> => last.times[Len(last.times)] = last.time0
        /\ (last.op = "get_pose_range" /\ last.ret = <<>>) => last.times = <<>>
        /\ (last.op = "apply_pose_sequence" /\ rangeMemo = <<>>) => last.times = <<>>
        /\ last.raised => Len(last.times) >= 2

\* the host raised at the second pose of a sequence: the time went to frame 1
\* and frame 2 and is back at frame 1, and the first pose was applied
C17_Witness ==
    /\ last.op = "apply_pose_sequence_raised" /\ last.raised
    /\ last.times = <<1, 2, 1>>
    /\ curTime = 1
    /\ Len(last.evals) = 1

\* the host raised at the first of two key times of a range, away from the
\* current time
C17_WitnessRangeRaised ==
    /\ last.op = "get_pose_range_raised" /\ last.raised
    /\ last.range = <<1, 2>>
    /\ last.times = <<1, 2>>
    /\ curTime = 2

\* a range was sampled to its end from a current time that is none of the
\* last key time
C17_WitnessReturned ==
    /\ last.op = "get_pose_range" /\ last.times = <<1, 2, 1>> /\ curTime = 1

\* apply_pose_sequence was handed an empty list
C17_WitnessEmptyList ==
    /\ last.op = "apply_pose_sequence" /\ rangeMemo = <<>> /\ last.times = <<>>
    /\ curTime = 2

----------------------------------------------------------------------------
(* Properties of the round trip of the tree (SpecLoad).                     *)

\* the frames of the poses of a range item, in their order
FrameList(poses) == [i \in 1..Len(poses) |-> poses[i].frame]

\* two lists of items agree in names, types, nesting and order of children,
\* node names of each pose and frames of each range (with the node names of
\* the pose of each frame); with lenient, a folder without a text may be
\* named "New Folder" in the second
RECURSIVE SameItems(_, _, _)
SameItems(a, b, lenient) ==
    /\ Len(a) = Len(b)
    /\ \A i \in 1..Len(a) :
         /\ \/ a[i].name = b[i].name
            \/ /\ lenient
               /\ a[i].data.type = "folder"
               /\ a[i].name = <<>>
               /\ b[i].name = <<"New Folder">>
         /\ a[i].data.type = b[i].data.type
         /\ a[i].data.type = "pose" =>
              DictKeys(a[i].data.pose) = DictKeys(b[i].data.pose)
         /\ a[i].data.type = "range" =>
              /\ FrameList(a[i].data.poses) = FrameList(b[i].data.poses)
              /\ \A k \in 1..Len(a[i].data.poses) :
                   DictKeys(a[i].data.poses[k].pose)
                     = DictKeys(b[i].data.poses[k].pose)
         /\ SameItems(a[i].children, b[i].children, lenient)

\* the entries of the pose files that are objects of a type the panel does
\* not know, or of no type
OtherTypeEntries ==
    UNION {{files[p].items[i] : i \in {j \in 1..Len(files[p].items) :
                /\ "json" \notin DOMAIN files[p].items[j]
                /\ Get(files[p].items[j], "type", None)
                     \notin {"pose", "range", "folder"}}}
           : p \in {q \in DOMAIN files : LoadAccepts(files, q)}}

\* C18: saving and loading the tree is a round trip: the items restored from
\* what _serialize_tree gives have the names, types, nesting and order of
\* children of the tree, the node names of each pose and the frames of each
\* range; and an entry of a type other than pose, range and folder is
\* restored as a folder.
C18_RoundTrip ==
    /\ SameItems(tree, RestoreItems(SerializeTree(tree)), FALSE)
    /\ \A item_data \in OtherTypeEntries :
          RestoreTreeItem(item_data).data = FolderData

\* what the code does: the same, but a folder whose text is empty comes back
\* named "New Folder"
C18_RoundTripButEmptyFolderName ==
    /\ SameItems(tree, RestoreItems(SerializeTree(tree)), TRUE)
    /\ \A item_data \in OtherTypeEntries :
          RestoreTreeItem(item_data).data = FolderData

\* the tree loaded holds a folder with a pose, and a range of one frame
C18_WitnessNested ==
    /\ last.op = "load" /\ Len(tree) = 2
    /\ tree[1].data.type = "folder" /\ Len(tree[1].children) = 1
    /\ tree[1].children[1].data.type = "pose"
    /\ DictKeys(tree[1].children[1].data.pose) = <<NodeC>>
    /\ tree[2].data.type = "range"
    /\ FrameList(tree[2].data.poses) = <<1>>
    /\ OtherTypeEntries # {}

====
